---- MODULE Spec2Model ----
(***************************************************************************)
(* State-machine model of the good-os-framework kernel core: the bitmap    *)
(* physical-frame allocator (memory/frame.rs, data/bitmap.rs), the         *)
(* per-CPU scheduler (task/scheduler.rs, task/thread.rs), process exit and *)
(* the signal wake-up hook (task/process.rs, task/signal.rs), and the      *)
(* user heap (memory/user_heap.rs).                                        *)
(***************************************************************************)
EXTENDS Integers, Sequences, FiniteSets, TLC

(***************************************************************************)
(* Bounds of the model                                                     *)
(***************************************************************************)
\* number of 4 KiB frames the boot memory map describes (allocator runs)
MemFrames == 48
\* largest run a caller asks allocate_frames for
MaxCnt == 3
\* number of 4 KiB frames of the boot memory map in the runs with a user process
ProcFrames == 512
\* page-table frames the copy of the kernel page table takes, below its level-4 table
KernelTables == 3
\* pages of the ELF segment of a user program
MaxSegPages == 2
\* pages of a user stack
MaxStackPages == 2
\* frames other callers hold while a user process lives
MaxOther == 2
\* CPUs in the CPU table (CPUS.len())
NCpu == 2
\* thread ids handed out (ThreadId::new)
MaxThreads == 5
\* user processes created
MaxUserProcs == 1
\* vruntime is kept at -VruntimeFloor once it falls to it: the code reads it
\* only through `<= 0` and overwrites it on the reset, so lower values behave alike
VruntimeFloor == 2
\* signal types callers use (1..NSigTypes; 0 is reserved)
NSigTypes == 1
\* signals queued in one signal manager
MaxSignals == 1
\* thread ids handed out in the runs with exit()
ExitThreads == 3
\* kernel threads created before the timer starts in the runs with wake-ups
WakeThreads == 3
\* kernel threads created before the timer starts in the runs with several parked threads
ParkThreads == 1
\* signal types, payloads and stored signals of the signal manager called directly
SigKinds == 2
SigData == 2
SigLen == 3
\* the page tables: levels and entries of a table (4 and 512 on x86_64)
PtLevels == 2
PtEntries == 2
\* the TTYs (6 in tty::init), the pages of a TTY's buffer and of the frame buffer,
\* the values of a page of pixels
NTty == 2
TtyPages == 1
MaxPixel == 1
\* the frames between the last frame taken at boot and the frame buffer
FbGap == 2
\* page tables cloned from the kernel's, and calls of switch_to after tty::init
MaxClones == 1
MaxSwitch == 3
\* allocations a user heap holds at a time
MaxAllocs == 2

(***************************************************************************)
(* Program constants                                                       *)
(***************************************************************************)
FrameSize == 4096
BitsPerByte == 8
KERNEL_PRIROITY == 10
USER_PRIROITY == 20
INIT_PRIORITY == 1
USER_HEAP_INIT_SIZE == 131072
BSP_LAPIC_ID == 0
\* page-table levels below the level-4 table
TableLevels == 3

VARIABLES
    \* BitmapFrameAllocator (memory/frame.rs:9-13)
    bitmap,         \* bit i TRUE = frame i is free
    usable_frames,
    next_frame,
    \* callers of the allocator
    owned,          \* frames handed out and not yet given back
    fret,           \* the last allocator call and what it returned
    pmem,           \* the frames of a user process's address space
    \* task/thread.rs, task/process.rs, task/scheduler.rs
    thread,         \* ThreadId -> Thread record
    THREADS,        \* the shared ready list (weak references, in order)
    proc,           \* ProcessId -> Process record
    PROCESSES,      \* keys of the global process map
    current_thread, \* SCHEDULERS: cpu -> Scheduler.current_thread (None: no scheduler)
    cst,            \* cpu -> "run" | "panic" | "hang" (spinning on a lock for ever)
    sched_lock,     \* holder of the SCHEDULERS mutex
    plk,            \* ProcessId -> state of the process RwLock
    ex,             \* the exit() call in progress
    wk,             \* the register_signal / wake-up call in progress
    threads_lock,   \* holder of the THREADS mutex when it is never released
    quantum,        \* cpu -> vruntime the current thread was given the CPU with, ticks since
    sret,           \* cpu -> thread whose context the last schedule() returned
    \* lib.rs, arch/smp.rs
    boot,           \* the three start-up flags, where the BSP and each AP are in
                    \* their start-up code, the interrupt flag of each CPU
    np,             \* the new_user_process call in progress
    \* task/signal.rs
    sm,             \* a SignalManager under direct calls, with the last call's result
    \* memory/page_table.rs
    mmu,            \* the page tables in memory and the page tables cloned from the kernel's
    \* console/tty.rs
    tty,            \* CURRENT_TTY, INIT, the pixels in the frames, the last switch_to
    \* memory/user_heap.rs
    uh,             \* a user ProcessHeap under direct calls
    \* arch/interrupts.rs
    irq             \* INTERRUPTS_TABLE and the dispatch in progress

dvars == <<sm, mmu, tty, uh, irq>>
fvars == <<bitmap, usable_frames, next_frame, owned, fret, pmem>>
svars == <<thread, THREADS, proc, PROCESSES, current_thread, cst, sched_lock, plk,
           ex, wk, threads_lock, quantum, sret, boot, np, dvars>>
vars == <<bitmap, usable_frames, next_frame, owned, fret, pmem,
          thread, THREADS, proc, PROCESSES, current_thread, cst, sched_lock, plk,
          ex, wk, threads_lock, quantum, sret, boot, np, dvars>>
\* the frame allocator's own fields
avars == <<bitmap, usable_frames, next_frame>>
\* the kernel's state outside the frame allocator's fields
nvars == <<owned, fret, pmem, thread, THREADS, proc, PROCESSES, current_thread, cst,
           sched_lock, plk, ex, wk, threads_lock, quantum, sret, boot, np>>
\* everything but dvars
kvars == <<bitmap, usable_frames, next_frame, owned, fret, pmem,
           thread, THREADS, proc, PROCESSES, current_thread, cst, sched_lock, plk,
           ex, wk, threads_lock, quantum, sret, boot, np>>

None == -1

(***************************************************************************)
(* data/bitmap.rs                                                          *)
(***************************************************************************)
\* Bitmap::len: the length of the backing byte slice
BitmapLen(bm) == Cardinality(DOMAIN bm) \div BitsPerByte

\* Bitmap::get: bit index % 8 of byte index / 8
BitmapGet(bm, index) == bm[(index \div BitsPerByte) * BitsPerByte + (index % BitsPerByte)]

\* Bitmap::set
BitmapSet(bm, index, value) ==
    [bm EXCEPT ![(index \div BitsPerByte) * BitsPerByte + (index % BitsPerByte)] = value]

\* for i in from..to { bitmap.set(i, value) }: Bitmap::set on every index of the range
BitmapSetRange(bm, from, to, value) ==
    [i \in DOMAIN bm |-> IF from <= i /\ i < to THEN value ELSE bm[i]]

PopCount(bm) == Cardinality({i \in DOMAIN bm : bm[i]})

(***************************************************************************)
(* The boot memory map (an input): entries sorted by base, as the          *)
(* bootloader reports them.  s is the first usable frame; hole, when not   *)
(* 0, is one reserved frame inside the usable memory.                      *)
(***************************************************************************)
DivCeil(a, b) == (a + b - 1) \div b

Region(first, last, usable) ==
    [base |-> first * FrameSize, length |-> (last - first) * FrameSize, usable |-> usable]

MemoryMapOf(frames, s, hole) ==
    (IF s > 0 THEN <<Region(0, s, FALSE)>> ELSE <<>>)
    \o (IF hole = 0 THEN <<Region(s, frames, TRUE)>>
        ELSE <<Region(s, hole, TRUE), Region(hole, hole + 1, FALSE),
               Region(hole + 1, frames, TRUE)>>)

MemoryMap(s, hole) == MemoryMapOf(MemFrames, s, hole)

MemoryMaps == {MemoryMap(s, h) : s \in 0..1, h \in {0, 4, 5}}

RECURSIVE SetUsable(_, _, _)
SetUsable(bm, mm, k) ==
    IF k > Len(mm) THEN bm
    ELSE IF mm[k].usable
         THEN SetUsable(BitmapSetRange(bm, mm[k].base \div FrameSize,
                                       mm[k].base \div FrameSize + mm[k].length \div FrameSize,
                                       TRUE), mm, k + 1)
         ELSE SetUsable(bm, mm, k + 1)

RECURSIVE SumUsable(_, _)
SumUsable(mm, k) ==
    IF k > Len(mm) THEN 0
    ELSE (IF mm[k].usable THEN mm[k].length \div FrameSize ELSE 0) + SumUsable(mm, k + 1)

Min(S) == CHOOSE x \in S : \A y \in S : x <= y

\* BitmapFrameAllocator::init
AllocatorInit(mm) ==
    LET memory_size == mm[Len(mm)].base + mm[Len(mm)].length
        bitmap_size == DivCeil(memory_size \div FrameSize, BitsPerByte)
        usable_idx == {k \in 1..Len(mm) : mm[k].usable}
        bitmap_address == mm[Min({k \in usable_idx : mm[k].length >= bitmap_size})].base
        zero == [i \in 0..(bitmap_size * BitsPerByte - 1) |-> FALSE]
        filled == SetUsable(zero, mm, 1)
        first == Min({mm[k].base \div FrameSize : k \in usable_idx})
        bitmap_frame_start == bitmap_address \div FrameSize
        bitmap_frame_count == DivCeil(bitmap_size, FrameSize)
        bitmap_frame_end == bitmap_frame_start + bitmap_frame_count
    IN  [bitmap |-> BitmapSetRange(filled, bitmap_frame_start, bitmap_frame_end, FALSE),
         usable_frames |-> SumUsable(mm, 1) - bitmap_frame_count,
         next_frame |-> IF first = bitmap_frame_start THEN bitmap_frame_end + 1 ELSE first]

(***************************************************************************)
(* BitmapFrameAllocator::allocate_frames                                   *)
(***************************************************************************)
RECURSIVE ScanRun(_, _, _, _)
\* while next < len && get(next) { next += 1; frame_cnt += 1; if frame_cnt == cnt {found; break} }
ScanRun(bm, next, frame_cnt, cnt) ==
    IF next < BitmapLen(bm) /\ BitmapGet(bm, next)
    THEN IF frame_cnt + 1 = cnt
         THEN [next |-> next + 1, found |-> TRUE]
         ELSE ScanRun(bm, next + 1, frame_cnt + 1, cnt)
    ELSE [next |-> next, found |-> FALSE]

RECURSIVE SkipClear(_, _)
\* while next < len && !get(next) { next += 1 }
SkipClear(bm, next) ==
    IF next < BitmapLen(bm) /\ ~BitmapGet(bm, next) THEN SkipClear(bm, next + 1) ELSE next

RECURSIVE SearchLoop(_, _, _)
\* the loop of lines 113-144
SearchLoop(bm, next, cnt) ==
    IF next >= BitmapLen(bm) THEN [next |-> next, found |-> FALSE]
    ELSE LET r == ScanRun(bm, SkipClear(bm, next), 0, cnt)
         IN  IF r.found THEN r ELSE SearchLoop(bm, r.next, cnt)

RunBaseOffByOne(next, cnt) == (next - cnt + 1) * FrameSize

\* the base address computed from the end of the run
RunBase(next, cnt) == (next - cnt) * FrameSize

\* the whole call: the result and the allocator afterwards
AllocateFrames(bm, usable, nf, cnt) ==
    IF cnt > usable
    THEN [res |-> None, bitmap |-> bm, usable_frames |-> usable, next_frame |-> nf]
    ELSE LET r1 == ScanRun(bm, nf, 0, cnt)
             r2 == SearchLoop(bm, r1.next, cnt)
         IN  IF r1.found
             THEN [res |-> RunBase(r1.next, cnt),
                   bitmap |-> BitmapSetRange(bm, r1.next - cnt, r1.next, FALSE),
                   usable_frames |-> usable - cnt, next_frame |-> r1.next]
             ELSE IF r2.found
             THEN [res |-> RunBase(r2.next, cnt),
                   bitmap |-> BitmapSetRange(bm, r2.next - cnt, r2.next, FALSE),
                   usable_frames |-> usable - cnt, next_frame |-> nf]
             ELSE [res |-> None, bitmap |-> bm, usable_frames |-> usable, next_frame |-> nf]

(***************************************************************************)
(* FrameAllocator::allocate_frame, FrameDeallocator::deallocate_frame      *)
(***************************************************************************)
\* (next_frame + 1..len).find(|i| get(i)).unwrap_or(len)
NextSetBit(bm, nf) ==
    LET S == {i \in (nf + 1)..(BitmapLen(bm) - 1) : BitmapGet(bm, i)}
    IN  IF S = {} THEN BitmapLen(bm) ELSE Min(S)

AllocateFrame(bm, usable, nf) ==
    IF usable = 0
    THEN [res |-> None, bitmap |-> bm, usable_frames |-> usable, next_frame |-> nf]
    ELSE LET cleared == BitmapSet(bm, nf, FALSE)
         IN  [res |-> nf * FrameSize, bitmap |-> cleared,
              usable_frames |-> usable - 1, next_frame |-> NextSetBit(cleared, nf)]

DeallocateFrame(bm, usable, nf, frame) ==
    [bitmap |-> BitmapSet(bm, frame, TRUE), usable_frames |-> usable, next_frame |-> nf]

(***************************************************************************)
(* The address space of a user process: the frames of its page tables and  *)
(* the frames mapped in its three user regions.                            *)
(***************************************************************************)
Regions == {"heap", "elf", "stack"}
HeapPages == USER_HEAP_INIT_SIZE \div FrameSize
Allocator(bm, usable, nf) == [bitmap |-> bm, usable_frames |-> usable, next_frame |-> nf]
SeqRange(q) == {q[i] : i \in 1..Len(q)}

RECURSIVE TakeFrames(_, _, _)
\* n calls of allocate_frame().unwrap() in a row, which end at the first None:
\* the allocator afterwards and the frames in the order of the calls (the test
\* on frames is never true: it makes TLC compute each step before the next)
TakeFrames(a, n, frames) ==
    IF n = 0 THEN [a |-> a, frames |-> frames]
    ELSE LET r == AllocateFrame(a.bitmap, a.usable_frames, a.next_frame)
         IN  IF r.res = None \/ Len(frames) < 0 THEN [a |-> a, frames |-> frames]
             ELSE TakeFrames(Allocator(r.bitmap, r.usable_frames, r.next_frame), n - 1,
                             Append(frames, r.res \div FrameSize))

RECURSIVE GiveFrames(_, _)
\* deallocate_frame for the frames of a sequence, in its order (deallocate_frame
\* leaves next_frame alone: the test makes TLC compute each step before the next)
GiveFrames(a, frames) ==
    IF frames = <<>> THEN a
    ELSE LET r == DeallocateFrame(a.bitmap, a.usable_frames, a.next_frame, Head(frames))
         IN  IF r.next_frame = a.next_frame
             THEN GiveFrames(Allocator(r.bitmap, r.usable_frames, r.next_frame), Tail(frames))
             ELSE a

\* create_page_table_from_kernel: GeneralPageTable::new for the level-4 table
\* and one for every lower table of the kernel's page table
PageTableFromKernel(a) ==
    LET t == TakeFrames(a, 1 + KernelTables, <<>>)
    IN  [a |-> t.a, root |-> t.frames[1], ktab |-> SubSeq(t.frames, 2, 1 + KernelTables)]

\* pages frames mapped one by one at consecutive pages of a region: map_to takes
\* the frames of the tables on the way to a page when they are missing
MapRegion(a, pages, tables) ==
    LET n == IF tables = <<>> THEN TableLevels ELSE 0
        t == TakeFrames(a, pages + n, <<>>)
    IN  [a |-> t.a,
         leaf |-> <<t.frames[1]>> \o SubSeq(t.frames, n + 2, pages + n),
         tab |-> tables \o SubSeq(t.frames, 2, n + 1)]

\* ProcessHeap::init of a user heap
HeapInit(a) == MapRegion(a, HeapPages, <<>>)
\* MemoryManager::alloc_range for the pages of an ELF segment
AllocRange(a, pages) == MapRegion(a, pages, <<>>)
\* UserStack::new in the page table of the process
UserStackNew(a, pages, tables) == MapRegion(a, pages, tables)

\* the address space new_user_process builds, its first thread's stack included;
\* leaf and tab: the frames mapped in a region, in page order, and the frames of
\* the region's tables; mapped and got: every frame ever mapped and ever taken
NewAddressSpace(a, seg, stk) ==
    LET pt == PageTableFromKernel(a)
        heap == HeapInit(pt.a)
        elf == AllocRange(heap.a, seg)
        stack == UserStackNew(elf.a, stk, <<>>)
        leaf == [r \in Regions |-> IF r = "heap" THEN heap.leaf
                                   ELSE IF r = "elf" THEN elf.leaf ELSE stack.leaf]
        tab == [r \in Regions |-> IF r = "heap" THEN heap.tab
                                  ELSE IF r = "elf" THEN elf.tab ELSE stack.tab]
    IN  [a |-> stack.a,
         pm |-> [root |-> pt.root, ktab |-> pt.ktab, tab |-> tab, leaf |-> leaf,
                 mapped |-> UNION {SeqRange(leaf[r]) : r \in Regions},
                 got |-> {pt.root} \cup SeqRange(pt.ktab)
                         \cup UNION {SeqRange(leaf[r]) \cup SeqRange(tab[r]) : r \in Regions}]]
\* frames new_user_process takes
AddressSpaceFrames(seg, stk) == 1 + KernelTables + HeapPages + seg + stk + 3 * TableLevels

\* a further thread's stack
AddStack(a, pm, stk) ==
    LET stack == UserStackNew(a, stk, pm.tab["stack"])
    IN  [a |-> stack.a,
         pm |-> [pm EXCEPT !.leaf["stack"] = @ \o stack.leaf,
                           !.tab["stack"] = stack.tab,
                           !.mapped = @ \cup SeqRange(stack.leaf),
                           !.got = @ \cup SeqRange(stack.leaf) \cup SeqRange(stack.tab)]]

\* the loop of ProcessHeap::clear: every heap page unmapped, its frame given back
HeapClear(a, pm) ==
    [a |-> GiveFrames(a, pm.leaf["heap"]), pm |-> [pm EXCEPT !.leaf["heap"] = <<>>]]

\* Process::drop: page_table.clean_up gives back the frames of the tables below
\* the level-4 table that have no used entry left, and nothing else
CleanUp(a, pm) ==
    LET freed(r) == IF pm.leaf[r] = <<>> THEN pm.tab[r] ELSE <<>>
    IN  [a |-> GiveFrames(a, freed("elf") \o freed("stack") \o freed("heap")),
         pm |-> [pm EXCEPT !.tab = [r \in Regions |-> IF pm.leaf[r] = <<>> THEN <<>> ELSE @[r]]]]

\* the frames a live address space holds
FramesOf(pm) ==
    {pm.root} \cup SeqRange(pm.ktab)
    \cup UNION {SeqRange(pm.leaf[r]) \cup SeqRange(pm.tab[r]) : r \in Regions}

(***************************************************************************)
(* task/thread.rs, task/process.rs: records                                *)
(***************************************************************************)
CPUs == 0..(NCpu - 1)
SigTypes == 1..NSigTypes
KERNEL_PROCESS == 0

\* Thread::new
NewThread(pid, priority, cpu) ==
    [cpu_id |-> cpu, priority |-> priority, vruntime |-> -1, state |-> "Ready",
     process |-> pid]

\* Process::new with ProcessHeap::new and SignalManager::new; held: the caller
\* of new_user_process keeps the SharedProcess it is returned
NewProcess(user, held) ==
    [threads |-> <<>>, heap_size |-> IF user THEN USER_HEAP_INIT_SIZE ELSE 0,
     waiting_for |-> 0, signal_bitmap |-> {}, signals |-> <<>>,
     user |-> user, held |-> held, dropped |-> FALSE]

\* ThreadId::new / ProcessId::new: the next value of the NEXT_ID counters
NextThreadId == Cardinality(DOMAIN thread)
NextProcessId == Cardinality(DOMAIN proc)

Unlocked == [w |-> FALSE, r |-> 0]
IdleExit == [pc |-> "idle", cpu |-> None, pid |-> None, tid |-> None, idx |-> 0]
IdleWake == [pc |-> "idle", cpu |-> None, pid |-> None, idx |-> 0, was |-> {}]
\* SignalManager::new: no bit set, no signal stored; no call made yet
NewSignalManager ==
    [signal_bitmap |-> {}, signals |-> <<>>, op |-> "new", ty |-> 0, ret |-> <<>>,
     panic |-> FALSE]

\* before the kernel's page table is looked at: no table known, no clone made
NoPageTables == [ptab |-> <<>>, clones |-> <<>>, panic |-> FALSE, kroot |-> None, fb |-> None]
\* before console::init
NoTTY == [cur |-> 0, init |-> FALSE, data |-> <<>>, n |-> 0]
\* before a ProcessHeap is made
NoHeap == [size |-> 0]
\* before the first irq_register
NoInterrupts == [table |-> <<>>]

\* the state of the parts of the kernel the scheduler does not touch
DevInit ==
    /\ sm = NewSignalManager
    /\ mmu = NoPageTables
    /\ tty = NoTTY
    /\ uh = NoHeap
    /\ irq = NoInterrupts

IdleSpawn == [pc |-> "idle", cpu |-> None, pid |-> None, held |-> FALSE]

\* the application processors
APs == CPUs \ {BSP_LAPIC_ID}

\* start_schedule() has returned and every AP has reached its hlt loop
Started ==
    [HPET_INIT |-> TRUE, SCHEDULER_INIT |-> TRUE, START_SCHEDULE |-> TRUE,
     bsp |-> "started", ap |-> [c \in APs |-> "hlt"], ie |-> [c \in CPUs |-> TRUE]]

(***************************************************************************)
(* task/scheduler.rs: add_thread                                           *)
(***************************************************************************)
\* tmp_cpu_loads: the entries of the ready list with this cpu_id
CpuLoad(list, th, k) == Cardinality({i \in 1..Len(list) : th[list[i]].cpu_id = k})

RECURSIVE BalanceFrom(_, _, _, _, _, _)
\* the loop `for cpu_id in 0..cpu_num` from cpu_id = k on.  min_loads and
\* tmp_cpu_loads are usize: min_loads - tmp_cpu_loads with tmp_cpu_loads larger
\* traps in a build with overflow checks and wraps to a positive value otherwise
BalanceFrom(list, th, k, min_cpu, min_loads, checks) ==
    IF k >= NCpu \/ Len(list) = 0
    THEN [cpu |-> min_cpu, panic |-> FALSE]
    ELSE LET tmp == CpuLoad(list, th, k)
         IN  IF tmp > min_loads
             THEN IF checks THEN [cpu |-> min_cpu, panic |-> TRUE]
                  ELSE BalanceFrom(list, th, k + 1, k, tmp, checks)
             ELSE IF min_loads - tmp > 0
                  THEN BalanceFrom(list, th, k + 1, k, tmp, checks)
                  ELSE BalanceFrom(list, th, k + 1, min_cpu, min_loads, checks)

AddThreadCpuNoBalance(list, th, cpu, checks) == [cpu |-> cpu, panic |-> FALSE]

\* the cpu_id add_thread leaves in the thread created on CPU cpu
AddThreadCpu(list, th, cpu, checks) == BalanceFrom(list, th, 0, cpu, Len(list), checks)

(***************************************************************************)
(* task/scheduler.rs: Scheduler::get_next, Scheduler::schedule             *)
(***************************************************************************)
EligibleAnyState(th, t, cpu, cur) == th[t].cpu_id = cpu /\ t # cur

EligibleAnyCpu(th, t, cpu, cur) == th[t].state = "Ready" /\ t # cur

Eligible(th, t, cpu, cur) ==
    th[t].state = "Ready" /\ th[t].cpu_id = cpu /\ t # cur

RECURSIVE GetNextFrom(_, _, _, _, _)
GetNextFrom(list, th, cpu, cur, idx) ==
    IF idx >= Len(list) THEN [list |-> list, next |-> None]
    ELSE LET rot == Append(Tail(list), Head(list))
         IN  IF Eligible(th, Head(list), cpu, cur)
             THEN [list |-> rot, next |-> Head(list)]
             ELSE GetNextFrom(rot, th, cpu, cur, idx + 1)

GetNext(list, th, cpu, cur) == GetNextFrom(list, th, cpu, cur, 0)

\* thread.vruntime -= 1
DecVruntime(v) == IF v - 1 < -VruntimeFloor THEN -VruntimeFloor ELSE v - 1

MustSwitchOneTickEarly(t) == t.vruntime <= 1 \/ t.state = "Terminated"

MustSwitchWhenParked(t) == t.vruntime <= 0 \/ t.state \notin {"Running", "Ready"}

\* the condition of line 129, on the thread after the decrement
MustSwitch(t) == t.vruntime <= 0 \/ t.state = "Terminated"

PreemptedAndMigrated(t) ==
    IF t.state = "Running"
    THEN [t EXCEPT !.vruntime = t.priority, !.state = "Ready", !.cpu_id = (t.cpu_id + 1) % NCpu]
    ELSE t

PreemptedKeepsRunning(t) ==
    IF t.state = "Running" THEN [t EXCEPT !.vruntime = t.priority] ELSE t

\* lines 147-151: what the switch leaves in the thread it takes the CPU from
Preempted(t) ==
    IF t.state = "Running" THEN [t EXCEPT !.vruntime = t.priority, !.state = "Ready"] ELSE t

\* schedule() on CPU cpu whose current thread is cur: the threads, the ready
\* list and current_thread afterwards, and the thread whose context is returned
Schedule(th, list, cpu, cur) ==
    LET th1 == [th EXCEPT ![cur].vruntime = DecVruntime(@)]
        g == GetNext(list, th1, cpu, cur)
        th2 == [th1 EXCEPT ![g.next].state = "Running"]
    IN  IF MustSwitch(th1[cur])
        THEN IF g.next = None
             THEN [panic |-> th1[cur].state = "Terminated", thread |-> th1,
                   list |-> g.list, current |-> cur, ret |-> cur]
             ELSE [panic |-> FALSE, thread |-> [th2 EXCEPT ![cur] = Preempted(@)],
                   list |-> g.list, current |-> g.next, ret |-> g.next]
        ELSE [panic |-> FALSE, thread |-> th1, list |-> list, current |-> cur, ret |-> cur]

(***************************************************************************)
(* The state task::scheduler::init() leaves: the kernel process in the     *)
(* process map and the BSP's scheduler with its init thread.               *)
(***************************************************************************)
\* Thread::new_init_thread on CPU cpu: the thread before add_thread places it
InitThread(cpu) ==
    [NewThread(KERNEL_PROCESS, KERNEL_PRIROITY, cpu) EXCEPT
        !.state = "Running", !.priority = INIT_PRIORITY]

\* the scheduler's statics after init()
SchedStatics ==
    /\ thread = (0 :> InitThread(BSP_LAPIC_ID))
    /\ THREADS = <<0>>
    /\ proc = (KERNEL_PROCESS :> [NewProcess(FALSE, TRUE) EXCEPT !.threads = <<0>>])
    /\ PROCESSES = {KERNEL_PROCESS}
    /\ current_thread = [c \in CPUs |-> IF c = BSP_LAPIC_ID THEN 0 ELSE None]
    /\ cst = [c \in CPUs |-> "run"]
    /\ sched_lock = None
    /\ threads_lock = None
    /\ plk = (KERNEL_PROCESS :> Unlocked)
    /\ ex = IdleExit
    /\ wk = IdleWake
    /\ sret = [c \in CPUs |-> None]
    /\ quantum = [c \in CPUs |-> [start |-> -1, ticks |-> 0]]
    /\ boot = Started
    /\ np = IdleSpawn

SchedBoot == SchedStatics /\ DevInit

(***************************************************************************)
(* The timer interrupt: arch/interrupts.rs timer_handler, which takes the  *)
(* SCHEDULERS mutex, looks the CPU's scheduler up and calls schedule().    *)
(***************************************************************************)
\* a panic, or a CPU spinning on a mutex that is never released, ends the run:
\* the model follows the other CPUs no further than their next tick
Alive == \A c \in CPUs : cst[c] = "run"

\* the threads of process p no scheduler holds as its current thread
Orphans(p, cur) == {proc[p].threads[i] : i \in 1..Len(proc[p].threads)} \ {cur[c] : c \in CPUs}

Tick(c) ==
    /\ Alive
    /\ sched_lock = None
    /\ UNCHANGED <<dvars, boot, np, fvars, proc, PROCESSES, plk, ex, wk>>
    /\ LET cur == current_thread[c]
       IN  IF cur = None
           THEN \* expect("Failed to find Processor"): the guard is never dropped
                /\ cst' = [cst EXCEPT ![c] = "panic"]
                /\ sched_lock' = c
                /\ UNCHANGED <<thread, THREADS, current_thread, threads_lock, quantum, sret>>
           ELSE LET r == Schedule(thread, THREADS, c, cur)
                    th1 == [thread EXCEPT ![cur].vruntime = DecVruntime(@)]
                IN  IF MustSwitch(th1[cur]) /\ threads_lock # None
                    THEN \* get_next spins on the THREADS mutex
                         /\ thread' = th1
                         /\ cst' = [cst EXCEPT ![c] = "hang"]
                         /\ sched_lock' = c
                         /\ UNCHANGED <<THREADS, current_thread, threads_lock, quantum, sret>>
                    ELSE /\ thread' = r.thread
                         /\ THREADS' = r.list
                         /\ current_thread' = [current_thread EXCEPT ![c] = r.current]
                         /\ quantum' = [quantum EXCEPT ![c] =
                                IF r.current = cur
                                THEN [@ EXCEPT !.ticks = IF @ < quantum[c].start THEN @ + 1 ELSE @]
                                ELSE [start |-> thread[r.current].vruntime, ticks |-> 0]]
                         /\ IF r.panic
                            THEN \* "CPU is hungry"
                                 /\ cst' = [cst EXCEPT ![c] = "panic"]
                                 /\ sched_lock' = c
                                 /\ UNCHANGED <<threads_lock, sret>>
                            ELSE IF r.current # cur /\ proc[thread[cur].process].dropped
                            THEN \* the last reference to the old thread goes: Thread::drop
                                 \* locks THREADS twice
                                 /\ cst' = [cst EXCEPT ![c] = "hang"]
                                 /\ sched_lock' = c
                                 /\ threads_lock' = c
                                 /\ UNCHANGED sret
                            ELSE /\ sret' = [sret EXCEPT ![c] = r.ret]
                                 /\ UNCHANGED <<cst, sched_lock, threads_lock>>

\* a tick while the SCHEDULERS mutex is held by this CPU itself (the interrupt
\* arrived inside exit()) or by a CPU that will never release it
TickSpin(c) ==
    /\ cst[c] = "run"
    /\ sched_lock # None
    /\ sched_lock = c \/ cst[sched_lock] # "run"
    /\ cst' = [cst EXCEPT ![c] = "hang"]
    /\ UNCHANGED <<dvars, boot, np, fvars, thread, THREADS, proc, PROCESSES, current_thread, sched_lock,
                   plk, ex, wk, threads_lock, quantum, sret>>

(***************************************************************************)
(* Thread and process creation                                             *)
(***************************************************************************)
InExit == ex.pc \in {"write", "mark", "clear", "remove"}
InWake == wk.pc \in {"read", "loop"}
\* CPU c executes thread code and is in neither call
Free(c) ==
    /\ Alive
    /\ ~(InExit /\ ex.cpu = c)
    /\ ~(InWake /\ wk.cpu = c)
    /\ ~(np.pc = "add" /\ np.cpu = c)
\* a caller can get hold of the SharedProcess
Handle(p) == ~proc[p].dropped /\ (p \in PROCESSES \/ proc[p].held)
LockFree(p) == ~plk[p].w /\ plk[p].r = 0

\* add_thread for the new thread tid of process pid created on CPU c; the
\* subtraction at line 80 panics with the THREADS mutex held
AddThread(c, tid, t) ==
    \E checks \in BOOLEAN :
    LET a == AddThreadCpu(THREADS, thread, c, checks)
    IN  /\ thread' = (tid :> [t EXCEPT !.cpu_id = a.cpu]) @@ thread
        /\ IF a.panic
           THEN /\ cst' = [cst EXCEPT ![c] = "panic"]
                /\ threads_lock' = c
                /\ UNCHANGED THREADS
           ELSE /\ THREADS' = Append(THREADS, tid)
                /\ UNCHANGED <<cst, threads_lock>>

\* Thread::new_kernel_thread
NewKernelThread(c) ==
    /\ Free(c) /\ threads_lock = None
    /\ NextThreadId < MaxThreads
    /\ LockFree(KERNEL_PROCESS)
    /\ AddThread(c, NextThreadId, NewThread(KERNEL_PROCESS, KERNEL_PRIROITY, c))
    /\ proc' = [proc EXCEPT ![KERNEL_PROCESS].threads =
                   IF cst'[c] = "run" THEN Append(@, NextThreadId) ELSE @]
    /\ UNCHANGED <<dvars, boot, np, fvars, PROCESSES, current_thread, sched_lock, plk, ex, wk, quantum,
                   sret>>

\* Process::new_user_process: the process with its first thread, then add_process
NewUserProcess(c, held, seg, stk) ==
    /\ Free(c) /\ threads_lock = None
    /\ NextThreadId < MaxThreads
    /\ NextProcessId <= MaxUserProcs
    /\ usable_frames >= AddressSpaceFrames(seg, stk)
    /\ LET m == NewAddressSpace(Allocator(bitmap, usable_frames, next_frame), seg, stk)
       IN  /\ bitmap' = m.a.bitmap
           /\ usable_frames' = m.a.usable_frames
           /\ next_frame' = m.a.next_frame
           /\ pmem' = (NextProcessId :> m.pm) @@ pmem
    /\ AddThread(c, NextThreadId, NewThread(NextProcessId, USER_PRIROITY, c))
    /\ IF cst'[c] = "run"
       THEN /\ proc' = (NextProcessId :> [NewProcess(TRUE, held) EXCEPT
                                             !.threads = <<NextThreadId>>]) @@ proc
            /\ PROCESSES' = PROCESSES \cup {NextProcessId}
            /\ plk' = (NextProcessId :> Unlocked) @@ plk
       ELSE /\ proc' = (NextProcessId :> NewProcess(TRUE, held)) @@ proc
            /\ plk' = (NextProcessId :> [w |-> TRUE, r |-> 0]) @@ plk
            /\ UNCHANGED PROCESSES
    /\ UNCHANGED <<dvars, boot, np, owned, fret, current_thread, sched_lock, ex, wk, quantum, sret>>

\* Process::new_user_process up to and with Thread::new_user_thread (lines 94-99);
\* the caller still holds the only SharedProcess
NewUserProcessThread(c, held, seg, stk) ==
    /\ Free(c) /\ threads_lock = None
    /\ NextThreadId < MaxThreads
    /\ NextProcessId <= MaxUserProcs
    /\ usable_frames >= AddressSpaceFrames(seg, stk)
    /\ LET m == NewAddressSpace(Allocator(bitmap, usable_frames, next_frame), seg, stk)
       IN  /\ bitmap' = m.a.bitmap
           /\ usable_frames' = m.a.usable_frames
           /\ next_frame' = m.a.next_frame
           /\ pmem' = (NextProcessId :> m.pm) @@ pmem
    /\ AddThread(c, NextThreadId, NewThread(NextProcessId, USER_PRIROITY, c))
    /\ IF cst'[c] = "run"
       THEN /\ proc' = (NextProcessId :> [NewProcess(TRUE, TRUE) EXCEPT
                                             !.threads = <<NextThreadId>>]) @@ proc
            /\ plk' = (NextProcessId :> Unlocked) @@ plk
            /\ np' = [pc |-> "add", cpu |-> c, pid |-> NextProcessId, held |-> held]
       ELSE /\ proc' = (NextProcessId :> NewProcess(TRUE, held)) @@ proc
            /\ plk' = (NextProcessId :> [w |-> TRUE, r |-> 0]) @@ plk
            /\ UNCHANGED np
    /\ UNCHANGED <<dvars, boot, owned, fret, PROCESSES, current_thread, sched_lock, ex, wk, quantum,
                   sret>>

\* the rest of Process::new_user_process: add_process(process.clone()) and the
\* return of the SharedProcess, which the caller keeps or drops
NewUserProcessAdd ==
    /\ np.pc = "add" /\ Alive
    /\ PROCESSES' = PROCESSES \cup {np.pid}
    /\ proc' = [proc EXCEPT ![np.pid].held = np.held]
    /\ np' = IdleSpawn
    /\ UNCHANGED <<dvars, boot, fvars, thread, THREADS, current_thread, cst, sched_lock, plk, ex, wk,
                   threads_lock, quantum, sret>>

\* Thread::new_user_thread on an existing user process
NewUserThread(c, p, stk) ==
    /\ Free(c) /\ threads_lock = None
    /\ NextThreadId < MaxThreads
    /\ proc[p].user /\ Handle(p) /\ LockFree(p)
    /\ usable_frames >= stk + TableLevels
    /\ LET m == AddStack(Allocator(bitmap, usable_frames, next_frame), pmem[p], stk)
       IN  /\ bitmap' = m.a.bitmap
           /\ usable_frames' = m.a.usable_frames
           /\ next_frame' = m.a.next_frame
           /\ pmem' = [pmem EXCEPT ![p] = m.pm]
    /\ AddThread(c, NextThreadId, NewThread(p, USER_PRIROITY, c))
    /\ proc' = [proc EXCEPT ![p].threads = IF cst'[c] = "run" THEN Append(@, NextThreadId) ELSE @]
    /\ plk' = [plk EXCEPT ![p].w = cst'[c] # "run"]
    /\ UNCHANGED <<dvars, boot, np, owned, fret, PROCESSES, current_thread, sched_lock, ex, wk, quantum, sret>>

\* SCHEDULERS.lock().insert(id, Scheduler::new()) executed on CPU c, as
\* scheduler::init() does for the BSP
NewScheduler(c) ==
    /\ Free(c) /\ threads_lock = None
    /\ sched_lock = None
    /\ current_thread[c] = None
    /\ NextThreadId < MaxThreads
    /\ LockFree(KERNEL_PROCESS)
    /\ AddThread(c, NextThreadId, InitThread(c))
    /\ proc' = [proc EXCEPT ![KERNEL_PROCESS].threads = Append(@, NextThreadId)]
    /\ IF cst'[c] = "run"
       THEN /\ current_thread' = [current_thread EXCEPT ![c] = NextThreadId]
            /\ UNCHANGED sched_lock
       ELSE /\ sched_lock' = c
            /\ UNCHANGED current_thread
    /\ UNCHANGED <<dvars, boot, np, fvars, PROCESSES, plk, ex, wk, quantum, sret>>

(***************************************************************************)
(* task/scheduler.rs: exit(), step by step.  The SCHEDULERS guard and the  *)
(* read guard on the current thread live from the first step to the last.  *)
(***************************************************************************)
ThreadsOf(p) == {proc[p].threads[i] : i \in 1..Len(proc[p].threads)}

\* the last SharedProcess of p goes: Drop for Process
DropFrames(p, last) ==
    IF last /\ p \in DOMAIN pmem
    THEN LET m == CleanUp(Allocator(bitmap, usable_frames, next_frame), pmem[p])
         IN  /\ bitmap' = m.a.bitmap
             /\ usable_frames' = m.a.usable_frames
             /\ next_frame' = m.a.next_frame
             /\ pmem' = [pmem EXCEPT ![p] = m.pm]
    ELSE UNCHANGED <<bitmap, usable_frames, next_frame, pmem>>

ExitStart(c) ==
    /\ Free(c) /\ ~InExit
    /\ sched_lock = None
    /\ current_thread[c] # None
    /\ sched_lock' = c
    /\ IF proc[thread[current_thread[c]].process].dropped
       THEN \* upgrade().unwrap() on a process that is gone
            /\ cst' = [cst EXCEPT ![c] = "panic"]
            /\ UNCHANGED ex
       ELSE /\ ex' = [pc |-> "write", cpu |-> c, pid |-> thread[current_thread[c]].process,
                      tid |-> current_thread[c], idx |-> 1]
            /\ UNCHANGED cst
    /\ UNCHANGED <<dvars, boot, np, fvars, thread, THREADS, proc, PROCESSES, current_thread, plk, wk,
                   threads_lock, quantum, sret>>

\* current_process.write()
ExitWrite ==
    /\ ex.pc = "write" /\ Alive
    /\ LockFree(ex.pid)
    /\ plk' = [plk EXCEPT ![ex.pid].w = TRUE]
    /\ ex' = [ex EXCEPT !.pc = "mark"]
    /\ UNCHANGED <<dvars, boot, np, fvars, thread, THREADS, proc, PROCESSES, current_thread, cst, sched_lock,
                   wk, threads_lock, quantum, sret>>

\* one iteration of the loop of lines 190-192
ExitMark ==
    /\ ex.pc = "mark" /\ Alive
    /\ ex.idx <= Len(proc[ex.pid].threads)
    /\ thread' = [thread EXCEPT ![proc[ex.pid].threads[ex.idx]].state = "Terminated"]
    /\ ex' = [ex EXCEPT !.idx = @ + 1]
    /\ UNCHANGED <<dvars, boot, np, fvars, THREADS, proc, PROCESSES, current_thread, cst, sched_lock, plk,
                   wk, threads_lock, quantum, sret>>

\* heap.clear() up to its force_write_unlock; the kernel heap has no process
\* reference and the unwrap of line 151 panics
ExitClear ==
    /\ ex.pc = "mark" /\ Alive
    /\ ex.idx > Len(proc[ex.pid].threads)
    /\ IF proc[ex.pid].user
       THEN /\ plk' = [plk EXCEPT ![ex.pid].w = FALSE]
            /\ ex' = [ex EXCEPT !.pc = "clear"]
            /\ UNCHANGED cst
       ELSE /\ cst' = [cst EXCEPT ![ex.cpu] = "panic"]
            /\ UNCHANGED <<plk, ex>>
    /\ UNCHANGED <<dvars, boot, np, fvars, thread, THREADS, proc, PROCESSES, current_thread, sched_lock,
                   wk, threads_lock, quantum, sret>>

\* the rest of heap.clear(): process.write(), every heap page unmapped and its
\* frame given back, size = 0; the guard is dropped on return
ExitClearPages ==
    /\ ex.pc = "clear" /\ Alive
    /\ LockFree(ex.pid)
    /\ proc' = [proc EXCEPT ![ex.pid].heap_size = 0]
    /\ ex' = [ex EXCEPT !.pc = "remove"]
    /\ LET m == HeapClear(Allocator(bitmap, usable_frames, next_frame), pmem[ex.pid])
       IN  /\ bitmap' = m.a.bitmap
           /\ usable_frames' = m.a.usable_frames
           /\ next_frame' = m.a.next_frame
           /\ pmem' = [pmem EXCEPT ![ex.pid] = m.pm]
    /\ UNCHANGED <<dvars, boot, np, owned, fret, thread, THREADS, PROCESSES, current_thread, cst, sched_lock,
                   plk, wk, threads_lock, quantum, sret>>

\* drop(current_process_write); drop(current_process); PROCESSES.write().remove(&pid);
\* the map's reference may be the last one, and then Process::drop runs here
ExitRemove ==
    /\ ex.pc = "remove" /\ Alive
    /\ plk' = [plk EXCEPT ![ex.pid].w = FALSE]
    /\ PROCESSES' = PROCESSES \ {ex.pid}
    /\ LET last == ~proc[ex.pid].held /\ ~(InWake /\ wk.pid = ex.pid)
                   /\ ~proc[ex.pid].dropped
       IN  /\ proc' = [proc EXCEPT ![ex.pid].dropped = @ \/ last]
           /\ DropFrames(ex.pid, last)
           /\ IF last /\ Orphans(ex.pid, current_thread) # {}
              THEN \* Thread::drop of a thread no scheduler holds
                   /\ cst' = [cst EXCEPT ![ex.cpu] = "hang"]
                   /\ threads_lock' = ex.cpu
                   /\ UNCHANGED <<ex, sched_lock>>
              ELSE /\ ex' = IdleExit
                   /\ sched_lock' = None
                   /\ UNCHANGED <<cst, threads_lock>>
    /\ UNCHANGED <<dvars, boot, np, owned, fret, thread, THREADS, current_thread, wk, quantum, sret>>

(***************************************************************************)
(* task/signal.rs and the wake-up hook of task/process.rs                  *)
(***************************************************************************)
\* SignalManager::register_wait_for through process.write()
RegisterWaitFor(c, p, ty) ==
    /\ Free(c)
    /\ Handle(p) /\ LockFree(p)
    /\ proc[p].waiting_for # ty
    /\ proc' = [proc EXCEPT ![p].waiting_for = ty]
    /\ UNCHANGED <<dvars, boot, np, fvars, thread, THREADS, PROCESSES, current_thread, cst, sched_lock, plk,
                   ex, wk, threads_lock, quantum, sret>>

\* the running thread of CPU c parks itself
SetWaiting(c, st) ==
    /\ Free(c)
    /\ current_thread[c] # None
    /\ thread[current_thread[c]].state = "Running"
    /\ thread' = [thread EXCEPT ![current_thread[c]].state = st]
    /\ UNCHANGED <<dvars, boot, np, fvars, THREADS, proc, PROCESSES, current_thread, cst, sched_lock, plk,
                   ex, wk, threads_lock, quantum, sret>>

WakeUpUnlessBlocked(t) == IF t.state = "Blocked" THEN t ELSE [t EXCEPT !.state = "Ready"]

\* thread.write().state = ThreadState::Ready
WakeUp(t) == [t EXCEPT !.state = "Ready"]

Parked(p) == {t \in ThreadsOf(p) : thread[t].state \in {"Waiting", "Blocked"}}

\* register_signal(ty, s) called on CPU a through process.write(); when the
\* process waits for ty the hook starts: get_process(id).unwrap() and
\* force_write_unlock()
RegisterSignal(a, p, ty) ==
    /\ Free(a) /\ ~InWake
    /\ Handle(p) /\ LockFree(p)
    /\ Len(proc[p].signals) < MaxSignals
    /\ proc' = [proc EXCEPT ![p].signal_bitmap = @ \cup {ty},
                            ![p].signals = Append(@, ty)]
    /\ IF ty # proc[p].waiting_for
       THEN UNCHANGED <<cst, plk, wk>>
       ELSE IF p \notin PROCESSES
       THEN /\ cst' = [cst EXCEPT ![a] = "panic"]
            /\ plk' = [plk EXCEPT ![p].w = TRUE]
            /\ UNCHANGED wk
       ELSE /\ wk' = [pc |-> "read", cpu |-> a, pid |-> p, idx |-> 1, was |-> Parked(p)]
            /\ UNCHANGED <<cst, plk>>
    /\ UNCHANGED <<dvars, boot, np, fvars, thread, THREADS, PROCESSES, current_thread, sched_lock, ex,
                   threads_lock, quantum, sret>>

\* process.read() of the for loop
WakeRead ==
    /\ wk.pc = "read" /\ Alive
    /\ ~plk[wk.pid].w
    /\ plk' = [plk EXCEPT ![wk.pid].r = @ + 1]
    /\ wk' = [wk EXCEPT !.pc = "loop"]
    /\ UNCHANGED <<dvars, boot, np, fvars, thread, THREADS, proc, PROCESSES, current_thread, cst, sched_lock,
                   ex, threads_lock, quantum, sret>>

\* one iteration: thread.force_write_unlock(); thread.write().state = Ready.
\* write() waits while exit() holds its read guard on this thread
WakeThread ==
    /\ wk.pc = "loop" /\ Alive
    /\ wk.idx <= Len(proc[wk.pid].threads)
    /\ ~(InExit /\ ex.tid = proc[wk.pid].threads[wk.idx])
    /\ thread' = [thread EXCEPT ![proc[wk.pid].threads[wk.idx]] = WakeUp(@)]
    /\ wk' = [wk EXCEPT !.idx = @ + 1]
    /\ UNCHANGED <<dvars, boot, np, fvars, THREADS, proc, PROCESSES, current_thread, cst, sched_lock, plk,
                   ex, threads_lock, quantum, sret>>

\* the hook returns, waiting_for = 0, register_signal returns and the caller's
\* write guard and reference go
WakeEnd ==
    /\ wk.pc = "loop" /\ Alive
    /\ wk.idx > Len(proc[wk.pid].threads)
    /\ plk' = [plk EXCEPT ![wk.pid] = [w |-> FALSE, r |-> @.r - 1]]
    /\ LET last == wk.pid \notin PROCESSES /\ ~proc[wk.pid].held
       IN  /\ proc' = [proc EXCEPT ![wk.pid].waiting_for = 0, ![wk.pid].dropped = @ \/ last]
           /\ DropFrames(wk.pid, last /\ ~proc[wk.pid].dropped)
           /\ IF last /\ Orphans(wk.pid, current_thread) # {}
              THEN /\ cst' = [cst EXCEPT ![wk.cpu] = "hang"]
                   /\ threads_lock' = wk.cpu
                   /\ UNCHANGED wk
              ELSE /\ wk' = IdleWake
                   /\ UNCHANGED <<cst, threads_lock>>
    /\ UNCHANGED <<dvars, boot, np, owned, fret, thread, THREADS, PROCESSES, current_thread, sched_lock, ex,
                   quantum, sret>>

(***************************************************************************)
(* The scheduler under its callers                                         *)
(***************************************************************************)
SchedInit ==
    /\ bitmap = AllocatorInit(MemoryMapOf(ProcFrames, 0, 0)).bitmap
    /\ usable_frames = AllocatorInit(MemoryMapOf(ProcFrames, 0, 0)).usable_frames
    /\ next_frame = AllocatorInit(MemoryMapOf(ProcFrames, 0, 0)).next_frame
    /\ owned = {}
    /\ fret = [op |-> "init", cnt |-> 0, res |-> None]
    /\ pmem = <<>>
    /\ SchedBoot

\* thread creation and timer ticks on every CPU
SchedNext ==
    \/ \E c \in CPUs : Tick(c)
    \/ \E c \in CPUs : TickSpin(c)
    \/ \E c \in CPUs : NewKernelThread(c)
    \/ \E c \in CPUs : NewUserProcess(c, TRUE, 1, 1)
    \/ \E c \in CPUs : NewScheduler(c)

SpecSched == SchedInit /\ [][SchedNext]_vars

\* a user process with a second thread, exit() on its CPU and a signal
\* wake-up of it from another CPU, with the timer ticking
ExitNext ==
    \/ \E c \in CPUs : Tick(c)
    \/ \E c \in CPUs : TickSpin(c)
    \/ \E c \in CPUs, held \in BOOLEAN :
          NextThreadId < ExitThreads /\ NewUserProcess(c, held, 1, 1)
    \/ \E c \in CPUs, p \in DOMAIN proc :
          NextThreadId < ExitThreads /\ NewUserThread(c, p, 1)
    \/ \E c \in CPUs : ExitStart(c)
    \/ ExitWrite
    \/ ExitMark
    \/ ExitClear
    \/ ExitClearPages
    \/ ExitRemove
    \/ \E c \in CPUs, p \in DOMAIN proc, ty \in SigTypes : RegisterWaitFor(c, p, ty)
    \/ \E a \in CPUs, p \in DOMAIN proc, ty \in SigTypes : RegisterSignal(a, p, ty)
    \/ WakeRead
    \/ WakeThread
    \/ WakeEnd

SpecExit == SchedInit /\ [][ExitNext]_vars

(***************************************************************************)
(* Signal wake-ups of parked kernel threads.  The run starts where the     *)
(* boot code has created a scheduler on every CPU, in CPU order, and the   *)
(* BSP has created WakeThreads kernel threads, before the timer is started. *)
(***************************************************************************)
\* add_thread on the table st = [thread, THREADS] for thread t created on CPU c
Spawn(st, t, c) ==
    LET tid == Cardinality(DOMAIN st.thread)
        a == AddThreadCpu(st.THREADS, st.thread, c, TRUE)
    IN  [thread |-> (tid :> [t EXCEPT !.cpu_id = a.cpu]) @@ st.thread,
         THREADS |-> Append(st.THREADS, tid)]

RECURSIVE BootSchedulers(_, _)
BootSchedulers(st, c) ==
    IF c >= NCpu THEN st ELSE BootSchedulers(Spawn(st, InitThread(c), c), c + 1)

RECURSIVE BootThreads(_, _)
BootThreads(st, n) ==
    IF n = 0 THEN st
    ELSE BootThreads(Spawn(st, NewThread(KERNEL_PROCESS, KERNEL_PRIROITY, BSP_LAPIC_ID),
                           BSP_LAPIC_ID), n - 1)

Booted(n) ==
    BootThreads(BootSchedulers([thread |-> (0 :> InitThread(BSP_LAPIC_ID)), THREADS |-> <<0>>],
                               1), n)

BootedInit(n) ==
    /\ bitmap = AllocatorInit(MemoryMapOf(ProcFrames, 0, 0)).bitmap
    /\ usable_frames = AllocatorInit(MemoryMapOf(ProcFrames, 0, 0)).usable_frames
    /\ next_frame = AllocatorInit(MemoryMapOf(ProcFrames, 0, 0)).next_frame
    /\ owned = {}
    /\ fret = [op |-> "init", cnt |-> 0, res |-> None]
    /\ pmem = <<>>
    /\ thread = Booted(n).thread
    /\ THREADS = Booted(n).THREADS
    /\ proc = (KERNEL_PROCESS :> [NewProcess(FALSE, TRUE) EXCEPT !.threads = Booted(n).THREADS])
    /\ PROCESSES = {KERNEL_PROCESS}
    /\ current_thread = [c \in CPUs |-> c]
    /\ cst = [c \in CPUs |-> "run"]
    /\ sched_lock = None
    /\ threads_lock = None
    /\ plk = (KERNEL_PROCESS :> Unlocked)
    /\ ex = IdleExit
    /\ wk = IdleWake
    /\ sret = [c \in CPUs |-> None]
    /\ quantum = [c \in CPUs |-> [start |-> -1, ticks |-> 0]]
    /\ boot = Started
    /\ np = IdleSpawn
    /\ DevInit

\* threads park themselves while their process waits for a signal
WakeNext ==
    \/ \E c \in CPUs : Tick(c)
    \/ \E c \in CPUs, st \in {"Waiting", "Blocked"} :
          proc[KERNEL_PROCESS].waiting_for # 0 /\ SetWaiting(c, st)
    \/ \E c \in CPUs, p \in DOMAIN proc, ty \in SigTypes :
          proc[p].signals = <<>> /\ RegisterWaitFor(c, p, ty)
    \/ \E a \in CPUs, p \in DOMAIN proc, ty \in SigTypes : RegisterSignal(a, p, ty)
    \/ WakeRead
    \/ WakeThread
    \/ WakeEnd

SpecWake == BootedInit(ParkThreads) /\ [][WakeNext]_vars

\* the first kernel thread is the one that waits
Waiter == NCpu

\* the waiter registers its wait and parks itself as Waiting; another CPU
\* registers the signal
WaitNext ==
    \/ \E c \in CPUs : Tick(c)
    \/ \E c \in CPUs, ty \in SigTypes :
          /\ current_thread[c] = Waiter
          /\ proc[KERNEL_PROCESS].signals = <<>>
          /\ RegisterWaitFor(c, KERNEL_PROCESS, ty)
    \/ \E c \in CPUs :
          /\ current_thread[c] = Waiter
          /\ proc[KERNEL_PROCESS].waiting_for # 0
          /\ SetWaiting(c, "Waiting")
    \/ \E a \in CPUs, ty \in SigTypes :
          /\ thread[Waiter].state = "Waiting"
          /\ a # thread[Waiter].cpu_id
          /\ RegisterSignal(a, KERNEL_PROCESS, ty)
    \/ WakeRead
    \/ WakeThread
    \/ WakeEnd

\* the timer of every CPU keeps firing and the CPU in the wake-up hook goes on
SpecWakeFair ==
    /\ BootedInit(WakeThreads)
    /\ [][WaitNext]_vars
    /\ \A c \in CPUs : WF_vars(Tick(c))
    /\ WF_vars(WakeRead) /\ WF_vars(WakeThread) /\ WF_vars(WakeEnd)

(***************************************************************************)
(* The allocator under its callers: any sequence of allocate_frame,        *)
(* allocate_frames(cnt) and deallocate_frame of a frame the caller holds.  *)
(***************************************************************************)
FrameInit ==
    \E mm \in MemoryMaps :
        /\ bitmap = AllocatorInit(mm).bitmap
        /\ usable_frames = AllocatorInit(mm).usable_frames
        /\ next_frame = AllocatorInit(mm).next_frame
        /\ owned = {}
        /\ fret = [op |-> "init", cnt |-> 0, res |-> None]
        /\ pmem = <<>>
        /\ SchedBoot

FAllocFrame ==
    LET r == AllocateFrame(bitmap, usable_frames, next_frame)
    IN  /\ bitmap' = r.bitmap
        /\ usable_frames' = r.usable_frames
        /\ next_frame' = r.next_frame
        /\ owned' = IF r.res = None THEN owned ELSE owned \cup {r.res \div FrameSize}
        /\ fret' = [op |-> "allocate_frame", cnt |-> 1, res |-> r.res]
        /\ UNCHANGED <<svars, pmem>>

FAllocFrames(cnt) ==
    LET r == AllocateFrames(bitmap, usable_frames, next_frame, cnt)
    IN  /\ bitmap' = r.bitmap
        /\ usable_frames' = r.usable_frames
        /\ next_frame' = r.next_frame
        /\ owned' = IF r.res = None THEN owned
                    ELSE owned \cup ((r.res \div FrameSize)..(r.res \div FrameSize + cnt - 1))
        /\ fret' = [op |-> "allocate_frames", cnt |-> cnt, res |-> r.res]
        /\ UNCHANGED <<svars, pmem>>

FDealloc(frame) ==
    LET r == DeallocateFrame(bitmap, usable_frames, next_frame, frame)
    IN  /\ frame \in owned
        /\ bitmap' = r.bitmap
        /\ usable_frames' = r.usable_frames
        /\ next_frame' = r.next_frame
        /\ owned' = owned \ {frame}
        /\ fret' = [op |-> "deallocate_frame", cnt |-> 1, res |-> frame * FrameSize]
        /\ UNCHANGED <<svars, pmem>>

FrameNext ==
    \/ FAllocFrame
    \/ \E cnt \in 1..MaxCnt : FAllocFrames(cnt)
    \/ \E frame \in owned : FDealloc(frame)

SpecFrame == FrameInit /\ [][FrameNext]_vars

(***************************************************************************)
(* The frames of a user process from new_user_process to exit() and the    *)
(* drop of the process, next to other callers of the frame allocator.      *)
(***************************************************************************)
ProcNext ==
    \/ \E c \in CPUs : Tick(c)
    \/ \E c \in CPUs : TickSpin(c)
    \/ \E c \in CPUs, held \in BOOLEAN, seg \in 1..MaxSegPages, stk \in 1..MaxStackPages :
          NextThreadId < ExitThreads /\ NewUserProcess(c, held, seg, stk)
    \/ \E c \in CPUs, p \in DOMAIN proc, stk \in 1..MaxStackPages :
          NextThreadId < ExitThreads /\ NewUserThread(c, p, stk)
    \/ \E c \in CPUs : ExitStart(c)
    \/ ExitWrite
    \/ ExitMark
    \/ ExitClear
    \/ ExitClearPages
    \/ ExitRemove
    \/ Cardinality(owned) < MaxOther /\ FAllocFrame

SpecProc == SchedInit /\ [][ProcNext]_vars

(***************************************************************************)
(* C4: once a user process has exited and has been dropped, every frame    *)
(* that was allocated for it (the frames mapped for its ELF segments, its  *)
(* user stacks and its heap, and the frames of its page tables) is marked  *)
(* free again or has been handed to a new owner since: no frame stays      *)
(* allocated without an owner.                                             *)
(***************************************************************************)
C4_FramesFreedOnDrop ==
    \A p \in DOMAIN pmem :
        (proc[p].dropped /\ proc[p].heap_size = 0) =>
            \A f \in pmem[p].got : BitmapGet(bitmap, f) \/ f \in owned

(***************************************************************************)
(* C8: after every completed allocate_frame, allocate_frames and           *)
(* deallocate_frame, usable_frames equals the number of set (free) bits of *)
(* the frame bitmap.                                                       *)
(***************************************************************************)
C8_UsableIsPopcount == usable_frames = PopCount(bitmap)

(***************************************************************************)
(* C9: every frame allocate_frame returns was marked free immediately      *)
(* before the call and is held by no caller (no frame is handed out twice  *)
(* without a deallocation in between), and allocate_frame returns none     *)
(* only when no frame is free.                                             *)
(***************************************************************************)
C9_AllocFrameFresh ==
    [][FAllocFrame =>
         /\ fret'.res # None =>
               /\ BitmapGet(bitmap, fret'.res \div FrameSize)
               /\ (fret'.res \div FrameSize) \notin owned
         /\ fret'.res = None => PopCount(bitmap) = 0]_vars

(***************************************************************************)
(* C10: when allocate_frames(n) returns base b, b is a multiple of 4096,   *)
(* the n frames from b/4096 were all free before the call and are all not  *)
(* free after it, and no other bit has changed; deallocate_frame of a      *)
(* frame sets exactly that frame's bit again.                              *)
(***************************************************************************)
C10_AllocFramesExact ==
    [][/\ \A cnt \in 1..MaxCnt :
            (FAllocFrames(cnt) /\ fret'.res # None) =>
                LET b == fret'.res \div FrameSize
                IN  /\ fret'.res % FrameSize = 0
                    /\ b * FrameSize = fret'.res
                    /\ \A i \in DOMAIN bitmap :
                          IF i \in b..(b + cnt - 1)
                          THEN bitmap[i] /\ ~bitmap'[i]
                          ELSE bitmap'[i] = bitmap[i]
       /\ \A frame \in owned :
            FDealloc(frame) =>
                \A i \in DOMAIN bitmap :
                    bitmap'[i] = (IF i = frame THEN TRUE ELSE bitmap[i])]_vars

\* a run of at least two frames was handed out by allocate_frames
C10_Witness == fret.op = "allocate_frames" /\ fret.res # None /\ fret.cnt >= 2

\* some cnt consecutive frames of the bitmap are all marked free
HasFreeRun(bm, cnt) ==
    \E b \in DOMAIN bm :
        \A i \in b..(b + cnt - 1) : i \in DOMAIN bm /\ bm[i]

(***************************************************************************)
(* C11: allocate_frames(n) returns none only if the bitmap holds no run of *)
(* n consecutive free frames anywhere (so that, after frames were handed   *)
(* out one at a time and were all given back, a request for a run that is  *)
(* free succeeds).                                                         *)
(***************************************************************************)
C11_NoneOnlyWithoutRun ==
    [][\A cnt \in 1..MaxCnt :
          (FAllocFrames(cnt) /\ fret'.res = None) => ~HasFreeRun(bitmap, cnt)]_vars

(***************************************************************************)
(* Allocation sequences over one boot memory map with a reserved frame     *)
(* inside the usable memory: the bitmap before any sequence is known.      *)
(***************************************************************************)
RoundMap == MemoryMap(0, 4)

RoundInit ==
    /\ bitmap = AllocatorInit(RoundMap).bitmap
    /\ usable_frames = AllocatorInit(RoundMap).usable_frames
    /\ next_frame = AllocatorInit(RoundMap).next_frame
    /\ owned = {}
    /\ fret = [op |-> "init", cnt |-> 0, res |-> None]
    /\ pmem = <<>>
    /\ SchedBoot

SpecRound == RoundInit /\ [][FrameNext]_vars

(***************************************************************************)
(* C12: after any sequence of allocate_frame / allocate_frames calls and   *)
(* the deallocate_frame of every frame they handed out, in any order, the  *)
(* set of free bits of the bitmap is the one before the sequence.          *)
(***************************************************************************)
C12_RoundTripRestoresBitmap ==
    owned = {} => bitmap = AllocatorInit(RoundMap).bitmap

(***************************************************************************)
(* drivers/mod.rs: frames for the DMA drivers.  The drivers see a buffer   *)
(* through the bootloader's direct map of the physical memory.             *)
(***************************************************************************)
\* the offset of the direct map, as the bootloader reports it
PHYSICAL_MEMORY_OFFSET == 1073741824

convert_physical_to_virtual(physical_address) == physical_address + PHYSICAL_MEMORY_OFFSET
convert_virtual_to_physical(virtual_address) == virtual_address - PHYSICAL_MEMORY_OFFSET

\* PhysFrame::containing_address(addr), as a frame index
ContainingFrame(addr) == addr \div FrameSize

\* alloc_for_dma(cnt): allocate_frames(cnt).unwrap(); fret holds the virtual
\* address returned, or None when the unwrap panics
AllocForDma(cnt) ==
    LET r == AllocateFrames(bitmap, usable_frames, next_frame, cnt)
    IN  /\ bitmap' = r.bitmap
        /\ usable_frames' = r.usable_frames
        /\ next_frame' = r.next_frame
        /\ owned' = IF r.res = None THEN owned
                    ELSE owned \cup (ContainingFrame(r.res)..(ContainingFrame(r.res) + cnt - 1))
        /\ fret' = [op |-> "alloc_for_dma", cnt |-> cnt,
                    res |-> IF r.res = None THEN None ELSE convert_physical_to_virtual(r.res)]
        /\ UNCHANGED <<svars, pmem>>

\* dealloc_for_dma(virt_addr, _cnt): the allocator afterwards
DeallocForDmaOf(bm, usable, nf, virt_addr, cnt) ==
    DeallocateFrame(bm, usable, nf, ContainingFrame(convert_virtual_to_physical(virt_addr)))

\* dealloc_for_dma of the buffer the last alloc_for_dma returned, with its count
DeallocForDma ==
    LET r == DeallocForDmaOf(bitmap, usable_frames, next_frame, fret.res, fret.cnt)
    IN  /\ fret.op = "alloc_for_dma" /\ fret.res # None
        /\ bitmap' = r.bitmap
        /\ usable_frames' = r.usable_frames
        /\ next_frame' = r.next_frame
        /\ owned' = owned \ {ContainingFrame(convert_virtual_to_physical(fret.res))}
        /\ fret' = [op |-> "dealloc_for_dma", cnt |-> fret.cnt, res |-> fret.res]
        /\ UNCHANGED <<svars, pmem>>

DmaNext ==
    \/ FAllocFrame
    \/ \E cnt \in 1..MaxCnt : AllocForDma(cnt)
    \/ DeallocForDma

SpecDma == FrameInit /\ [][DmaNext]_vars

\* the frames of the buffer dealloc_for_dma was called with
DmaFrames ==
    LET b == ContainingFrame(convert_virtual_to_physical(fret.res))
    IN  b..(b + fret.cnt - 1)

(***************************************************************************)
(* C13: alloc_for_dma(n) followed by dealloc_for_dma(virt, n) with the     *)
(* virtual address returned gives all n frames back: afterwards each of    *)
(* the n frames is marked free again in the frame allocator, for every     *)
(* n >= 1.                                                                 *)
(***************************************************************************)
C13_DmaFramesGivenBack ==
    fret.op = "dealloc_for_dma" => \A f \in DmaFrames : BitmapGet(bitmap, f)

(***************************************************************************)
(* Claims about the scheduler                                              *)
(***************************************************************************)
RunningOn(c) == {t \in DOMAIN thread : thread[t].state = "Running" /\ thread[t].cpu_id = c}

\* C1: in every reachable state, for each CPU c at most one thread has
\* state = Running and cpu_id = c.
C1_OneRunningPerCpu == \A c \in CPUs : Cardinality(RunningOn(c)) <= 1

\* C2: a thread exit() has set to Terminated never changes state again, and
\* once no scheduler holds it as current thread no schedule() makes it current.
C2_TerminatedIsFinal ==
    [][\A t \in DOMAIN thread :
          thread[t].state = "Terminated" =>
              /\ thread'[t].state = "Terminated"
              /\ \A c \in CPUs :
                    current_thread[c] # t => current_thread'[c] # t /\ sret'[c] # t]_vars

\* C3: when exit() returns for a user process P, every thread of P is
\* Terminated, P's heap size is 0 and P is not in the process map; no step of
\* exit() touches the map entry of another process or a thread of another process.
C3_ExitPostcondition ==
    [][/\ (ExitRemove /\ ex'.pc = "idle" /\ proc[ex.pid].user) =>
            /\ \A t \in ThreadsOf(ex.pid) : thread'[t].state = "Terminated"
            /\ proc'[ex.pid].heap_size = 0
            /\ ex.pid \notin PROCESSES'
       /\ (ex' # ex /\ ex'.pc # "write") =>
            /\ PROCESSES' \ {ex.pid} = PROCESSES \ {ex.pid}
            /\ \A t \in DOMAIN thread \ ThreadsOf(ex.pid) : thread'[t] = thread[t]]_vars

\* C5 (as amended): a Running thread of priority p that was given CPU c with
\* vruntime = p and has had fewer than p ticks since is kept for exactly p
\* consecutive ticks while a Ready thread of c exists: the first p - 1 ticks
\* leave it current, the p-th switches to the first eligible thread of the
\* ready list, resets its vruntime to p and makes it Ready; the thread switched
\* to then has the quantum its own vruntime gives.
C5_Quantum ==
    [][\A c \in CPUs :
          LET cur == current_thread[c]
              p == thread[cur].priority
              next == current_thread'[c]
          IN  (/\ Tick(c)
               /\ cur # None
               /\ thread[cur].state = "Running"
               /\ quantum[c].start = p
               /\ quantum[c].ticks < p
               /\ \E t \in DOMAIN thread : Eligible(thread, t, c, cur))
              => IF quantum[c].ticks + 1 < p
                 THEN /\ next = cur
                      /\ thread'[cur].state = "Running"
                      /\ quantum'[c].ticks = quantum[c].ticks + 1
                 ELSE /\ next # cur
                      /\ next = GetNext(THREADS, thread, c, cur).next
                      /\ Eligible(thread, next, c, cur)
                      /\ thread'[next].state = "Running"
                      /\ thread'[cur].state = "Ready"
                      /\ thread'[cur].vruntime = p
                      /\ quantum'[c] = [start |-> thread[next].vruntime, ticks |-> 0]]_vars

\* a priority-10 thread in the last tick of a full quantum, with a thread to switch to
C5_Witness ==
    \E c \in CPUs :
        /\ current_thread[c] # None
        /\ thread[current_thread[c]].priority = KERNEL_PRIROITY
        /\ thread[current_thread[c]].state = "Running"
        /\ quantum[c] = [start |-> KERNEL_PRIROITY, ticks |-> KERNEL_PRIROITY - 1]
        /\ \E t \in DOMAIN thread : Eligible(thread, t, c, current_thread[c])

\* C5 (as stated, its example): with two priority-10 threads on one CPU, when
\* the first has had its 10 ticks the CPU goes to the second, for 10 ticks.
C5_TenThenTen ==
    [][\A c \in CPUs :
          LET cur == current_thread[c]
              next == current_thread'[c]
          IN  (/\ Tick(c)
               /\ cur # None
               /\ thread[cur].state = "Running"
               /\ thread[cur].priority = KERNEL_PRIROITY
               /\ quantum[c] = [start |-> KERNEL_PRIROITY, ticks |-> KERNEL_PRIROITY - 1]
               /\ \E t \in DOMAIN thread :
                     Eligible(thread, t, c, cur) /\ thread[t].priority = KERNEL_PRIROITY)
              => /\ thread[next].priority = KERNEL_PRIROITY
                 /\ next # cur
                 /\ quantum'[c].start = KERNEL_PRIROITY]_vars

\* C6 (as stated): when register_signal(T, s) returns on a process that was
\* waiting for T, every thread of the process that was Waiting or Blocked at
\* the call is in state Ready.
C6_ParkedAreReadyOnReturn ==
    [][(WakeEnd /\ wk'.pc = "idle") =>
           \A t \in wk.was : thread'[t].state = "Ready"]_vars

\* C6 (as amended): the call sets every thread of the process that was
\* Waiting or Blocked at the call to Ready before it returns: each pass of the
\* loop leaves its thread Ready, and at the return the loop has passed every
\* such thread.
C6_ParkedAreSetReady ==
    [][/\ WakeThread => thread'[proc[wk.pid].threads[wk.idx]].state = "Ready"
       /\ (WakeEnd /\ wk'.pc = "idle") =>
             \A t \in wk.was : \E i \in 1..(wk.idx - 1) : proc[wk.pid].threads[i] = t]_vars

\* the hook about to return after a call that found a Waiting and a Blocked thread
C6_Witness ==
    /\ wk.pc = "loop"
    /\ wk.idx > Len(proc[wk.pid].threads)
    /\ Cardinality(wk.was) >= 2
    /\ \E t \in wk.was : thread[t].state = "Ready"

\* C7: a Waiting thread with cpu_id = c whose process is signalled from another
\* CPU with the type it waits for is eventually made Running by c's scheduler,
\* c's timer ticking for ever.
C7_WokenThreadRuns ==
    (/\ thread[Waiter].state = "Waiting"
     /\ current_thread[thread[Waiter].cpu_id] # Waiter
     /\ InWake
     /\ wk.pid = thread[Waiter].process
     /\ wk.cpu # thread[Waiter].cpu_id)
    ~> (thread[Waiter].state = "Running")

C15_CpuIdIsFixed ==
    [][\A t \in DOMAIN thread :
          t \in SeqRange(THREADS) => thread'[t].cpu_id = thread[t].cpu_id]_vars

\* a thread that was placed, was given a CPU by schedule() and was terminated
\* by exit(), with a later add_thread for another thread
C15_Witness ==
    \E c \in CPUs, t \in DOMAIN thread :
        /\ t \in SeqRange(THREADS)
        /\ sret[c] = t
        /\ thread[t].state = "Terminated"
        /\ NextThreadId > t + 1

(***************************************************************************)
(* lib.rs, arch/smp.rs: the start-up of the BSP (init_framework, then      *)
(* start_schedule) and of the APs (ap_entry).  The flags are SeqCst        *)
(* atomics, so every load sees the last store.                             *)
(***************************************************************************)
\* the state when the BSP enters init_framework: the APs are not started,
\* interrupts are off everywhere, there is no thread and no scheduler
BootInit ==
    /\ bitmap = AllocatorInit(MemoryMapOf(ProcFrames, 0, 0)).bitmap
    /\ usable_frames = AllocatorInit(MemoryMapOf(ProcFrames, 0, 0)).usable_frames
    /\ next_frame = AllocatorInit(MemoryMapOf(ProcFrames, 0, 0)).next_frame
    /\ owned = {}
    /\ fret = [op |-> "init", cnt |-> 0, res |-> None]
    /\ pmem = <<>>
    /\ thread = <<>>
    /\ THREADS = <<>>
    /\ proc = (KERNEL_PROCESS :> NewProcess(FALSE, TRUE))
    /\ PROCESSES = {}
    /\ current_thread = [c \in CPUs |-> None]
    /\ cst = [c \in CPUs |-> "run"]
    /\ sched_lock = None
    /\ threads_lock = None
    /\ plk = (KERNEL_PROCESS :> Unlocked)
    /\ ex = IdleExit
    /\ wk = IdleWake
    /\ sret = [c \in CPUs |-> None]
    /\ quantum = [c \in CPUs |-> [start |-> -1, ticks |-> 0]]
    /\ boot = [HPET_INIT |-> FALSE, SCHEDULER_INIT |-> FALSE, START_SCHEDULE |-> FALSE,
               bsp |-> "early", ap |-> [c \in APs |-> "off"], ie |-> [c \in CPUs |-> FALSE]]
    /\ np = IdleSpawn
    /\ DevInit

SpinWaitSkipped(flag) == TRUE

\* while !FLAG.load(Ordering::SeqCst) {}: the loop is left when the flag is set
SpinWait(flag) == flag

\* drivers::hpet::init(), which sets HPET_INIT
BspHpetInit ==
    /\ boot.bsp = "early" /\ ~boot.HPET_INIT
    /\ boot' = [boot EXCEPT !.HPET_INIT = TRUE]
    /\ UNCHANGED <<fvars, thread, THREADS, proc, PROCESSES, current_thread, cst, sched_lock,
                   plk, ex, wk, threads_lock, quantum, sret, np, dvars>>

\* CPUS.write().init_ap(): every AP is pointed at ap_entry and starts there
BspInitAp ==
    /\ boot.bsp = "early" /\ \A c \in APs : boot.ap[c] = "off"
    /\ boot' = [boot EXCEPT !.ap = [c \in APs |-> "wait_hpet"]]
    /\ UNCHANGED <<fvars, thread, THREADS, proc, PROCESSES, current_thread, cst, sched_lock,
                   plk, ex, wk, threads_lock, quantum, sret, np, dvars>>

\* the BSP's own timer calibration and the driver initialisation up to user::init()
BspUserInit ==
    /\ boot.bsp = "early" /\ boot.HPET_INIT /\ \A c \in APs : boot.ap[c] # "off"
    /\ boot' = [boot EXCEPT !.bsp = "scheduler_init"]
    /\ UNCHANGED <<fvars, thread, THREADS, proc, PROCESSES, current_thread, cst, sched_lock,
                   plk, ex, wk, threads_lock, quantum, sret, np, dvars>>

\* task::scheduler::init(): add_process(KERNEL_PROCESS), the BSP's scheduler with
\* its init thread, SCHEDULER_INIT
BspSchedulerInit ==
    /\ boot.bsp = "scheduler_init"
    /\ PROCESSES' = PROCESSES \cup {KERNEL_PROCESS}
    /\ AddThread(BSP_LAPIC_ID, NextThreadId, InitThread(BSP_LAPIC_ID))
    /\ proc' = [proc EXCEPT ![KERNEL_PROCESS].threads = Append(@, NextThreadId)]
    /\ current_thread' = [current_thread EXCEPT ![BSP_LAPIC_ID] = NextThreadId]
    /\ boot' = [boot EXCEPT !.SCHEDULER_INIT = TRUE, !.bsp = "ready"]
    /\ UNCHANGED <<fvars, sched_lock, plk, ex, wk, quantum, sret, np, dvars>>

\* start_schedule()
StartSchedule ==
    /\ boot.bsp = "ready"
    /\ boot' = [boot EXCEPT !.START_SCHEDULE = TRUE, !.ie[BSP_LAPIC_ID] = TRUE,
                            !.bsp = "started"]
    /\ UNCHANGED <<fvars, thread, THREADS, proc, PROCESSES, current_thread, cst, sched_lock,
                   plk, ex, wk, threads_lock, quantum, sret, np, dvars>>

\* AP c moves from one place of ap_entry to the next
ApStep(c, from, to) ==
    /\ boot.ap[c] = from
    /\ boot' = [boot EXCEPT !.ap[c] = to]
    /\ UNCHANGED <<fvars, thread, THREADS, proc, PROCESSES, current_thread, cst, sched_lock,
                   plk, ex, wk, threads_lock, quantum, sret, np, dvars>>

\* line 31
ApWaitHpet(c) == SpinWait(boot.HPET_INIT) /\ ApStep(c, "wait_hpet", "calibrate")
\* lines 33-36: lapic.enable(), calibrate_timer, enable_timer
ApCalibrate(c) == ApStep(c, "calibrate", "wait_sched")
\* line 38
ApWaitScheduler(c) == SpinWait(boot.SCHEDULER_INIT) /\ ApStep(c, "wait_sched", "user_init")
\* line 40: user::init(), which sets the CPU up for system calls
ApUserInit(c) == ApStep(c, "user_init", "wait_start")
\* line 42
ApWaitStart(c) == SpinWait(boot.START_SCHEDULE) /\ ApStep(c, "wait_start", "sti")

\* line 43: interrupts::enable(), then the hlt loop
ApEnable(c) ==
    /\ boot.ap[c] = "sti"
    /\ boot' = [boot EXCEPT !.ap[c] = "hlt", !.ie[c] = TRUE]
    /\ UNCHANGED <<fvars, thread, THREADS, proc, PROCESSES, current_thread, cst, sched_lock,
                   plk, ex, wk, threads_lock, quantum, sret, np, dvars>>

\* the start-up, the kernel threads the BSP creates once the scheduler is
\* initialised, and the timer ticks of the CPUs whose interrupts are enabled
BootNext ==
    \/ BspHpetInit
    \/ BspInitAp
    \/ BspUserInit
    \/ BspSchedulerInit
    \/ StartSchedule
    \/ \E c \in APs : ApWaitHpet(c)
    \/ \E c \in APs : ApCalibrate(c)
    \/ \E c \in APs : ApWaitScheduler(c)
    \/ \E c \in APs : ApUserInit(c)
    \/ \E c \in APs : ApWaitStart(c)
    \/ \E c \in APs : ApEnable(c)
    \/ boot.bsp \in {"ready", "started"} /\ NewKernelThread(BSP_LAPIC_ID)
    \/ \E c \in CPUs : boot.ie[c] /\ Tick(c)
    \/ \E c \in CPUs : boot.ie[c] /\ TickSpin(c)

SpecBoot == BootInit /\ [][BootNext]_vars

(***************************************************************************)
(* C16: when any CPU (BSP or AP) takes a timer tick after start_schedule(),*)
(* a scheduler instance keyed by that CPU's LAPIC id exists, so that the   *)
(* tick handler finds it and the CPU goes on running instead of failing.   *)
(***************************************************************************)
C16_TickFindsScheduler ==
    [][\A c \in CPUs :
          (boot.ie[c] /\ Tick(c)) => (current_thread[c] # None /\ cst'[c] = "run")]_vars

(***************************************************************************)
(* C17: in every interleaving of the BSP and the APs, no AP calibrates its *)
(* LAPIC timer before HPET_INIT is set, none calls user-mode init before   *)
(* SCHEDULER_INIT is set, and none enables interrupts before               *)
(* START_SCHEDULE is set; each flag, once true, never becomes false again. *)
(***************************************************************************)
C17_ApsWaitForFlags ==
    [][/\ \A c \in APs :
            /\ (boot.ap[c] = "calibrate" /\ boot'.ap[c] # "calibrate") => boot.HPET_INIT
            /\ (boot.ap[c] = "user_init" /\ boot'.ap[c] # "user_init") => boot.SCHEDULER_INIT
            /\ (~boot.ie[c] /\ boot'.ie[c]) => boot.START_SCHEDULE
       /\ boot.HPET_INIT => boot'.HPET_INIT
       /\ boot.SCHEDULER_INIT => boot'.SCHEDULER_INIT
       /\ boot.START_SCHEDULE => boot'.START_SCHEDULE]_vars

\* every AP has gone through ap_entry and sits in its hlt loop, interrupts on
C17_Witness == \A c \in APs : boot.ap[c] = "hlt" /\ boot.ie[c]

(***************************************************************************)
(* C18: no spin lock the timer-tick path acquires is held by non-interrupt *)
(* code on a CPU while interrupts are enabled on that CPU (the tick itself *)
(* runs as one step with interrupts off); hence no tick spins for ever on  *)
(* a lock held by the code it interrupted, such as exit().                 *)
(***************************************************************************)
C18_NoLockWithInterruptsOn ==
    \A c \in CPUs :
        /\ (sched_lock = c /\ cst[c] = "run") => ~boot.ie[c]
        /\ ~(cst[c] = "hang" /\ sched_lock = c /\ threads_lock # c /\ InExit /\ ex.cpu = c)

(***************************************************************************)
(* new_user_process step by step, next to the timer ticks of every CPU and *)
(* the creation of kernel threads and schedulers.                          *)
(***************************************************************************)
SpawnNext ==
    \/ \E c \in CPUs : Tick(c)
    \/ \E c \in CPUs : TickSpin(c)
    \/ \E c \in CPUs : NextThreadId < ExitThreads /\ NewKernelThread(c)
    \/ \E c \in CPUs : NextThreadId < ExitThreads /\ NewScheduler(c)
    \/ \E c \in CPUs, held \in BOOLEAN :
          NextThreadId < ExitThreads /\ NewUserProcessThread(c, held, 1, 1)
    \/ NewUserProcessAdd

SpecSpawn == SchedInit /\ [][SpawnNext]_vars

(***************************************************************************)
(* C19: during new_user_process the process is registered in the global    *)
(* process map before its first thread is pushed to the ready list: in no  *)
(* reachable state has a CPU scheduled a thread of a user process that     *)
(* get_process does not yet return.                                        *)
(***************************************************************************)
C19_RegisteredBeforeScheduled ==
    \A c \in CPUs :
        (np.pc = "add" /\ current_thread[c] # None) =>
            (thread[current_thread[c]].process = np.pid => np.pid \in PROCESSES)

(***************************************************************************)
(* C20: after any sequence of operations (thread creation, timer ticks,    *)
(* signals, and exit() called from any thread, a kernel thread included),  *)
(* the kernel process is still in the global process map, it is the only   *)
(* kernel process, and it has not been torn down: none of its threads has  *)
(* been set to Terminated.                                                 *)
(***************************************************************************)
C20_KernelProcessImmortal ==
    /\ KERNEL_PROCESS \in PROCESSES
    /\ \A p \in DOMAIN proc : ~proc[p].user => p = KERNEL_PROCESS
    /\ ~proc[KERNEL_PROCESS].dropped
    /\ \A t \in ThreadsOf(KERNEL_PROCESS) : thread[t].state # "Terminated"

(***************************************************************************)
(* task/signal.rs: the operations of one SignalManager, called directly.   *)
(* A signal is its ty field and its data; the type a signal is registered  *)
(* under is a separate argument of register_signal.                        *)
(***************************************************************************)
SignalTypes == 1..SigKinds
Signals == [ty : SignalTypes, data : 1..SigData]

\* has_signal
HasSignal(m, signal_type) == signal_type \in m.signal_bitmap

\* Vec::remove(idx), idx counted from 0
VecRemove(q, idx) == SubSeq(q, 1, idx) \o SubSeq(q, idx + 2, Len(q))

GetSignalNewest(m, signal_type) ==
    LET hits == {i \in 1..Len(m.signals) : m.signals[i].ty = signal_type}
    IN  IF HasSignal(m, signal_type) /\ hits # {}
        THEN <<m.signals[CHOOSE i \in hits : \A j \in hits : j <= i]>> ELSE <<>>

\* get_signal: the first stored signal whose ty is signal_type, when the bit is set;
\* an Option is the sequence of what it holds
GetSignal(m, signal_type) ==
    LET hits == {i \in 1..Len(m.signals) : m.signals[i].ty = signal_type}
    IN  IF HasSignal(m, signal_type) /\ hits # {} THEN <<m.signals[Min(hits)]>> ELSE <<>>

RECURSIVE DeleteLoop(_, _, _, _)
\* for idx in 0..len { if signals[idx].ty == signal_type { signals.remove(idx) } }
\* from idx on, len being the length before the loop; signals[idx] panics when
\* idx is past the end of the vector as it is now
DeleteLoop(signals, idx, len, signal_type) ==
    IF idx >= len THEN [signals |-> signals, panic |-> FALSE]
    ELSE IF idx >= Len(signals) THEN [signals |-> signals, panic |-> TRUE]
    ELSE IF signals[idx + 1].ty = signal_type
         THEN DeleteLoop(VecRemove(signals, idx), idx + 1, len, signal_type)
         ELSE DeleteLoop(signals, idx + 1, len, signal_type)

\* delete_signal: the bitmap, the list and whether the call panicked
DeleteSignal(m, signal_type) ==
    IF HasSignal(m, signal_type)
    THEN LET r == DeleteLoop(m.signals, 0, Len(m.signals), signal_type)
         IN  [signal_bitmap |-> m.signal_bitmap \ {signal_type}, signals |-> r.signals,
              panic |-> r.panic]
    ELSE [signal_bitmap |-> m.signal_bitmap, signals |-> m.signals, panic |-> FALSE]

\* register_signal(signal_type, signal) on a process that waits for nothing
SigRegister(signal_type, signal) ==
    /\ ~sm.panic
    /\ Len(sm.signals) < SigLen
    /\ sm' = [sm EXCEPT !.signal_bitmap = @ \cup {signal_type},
                        !.signals = Append(@, signal),
                        !.op = "register_signal", !.ty = signal_type, !.ret = <<>>]
    /\ UNCHANGED <<kvars, mmu, tty, uh, irq>>

SigGet(signal_type) ==
    /\ ~sm.panic
    /\ sm' = [sm EXCEPT !.op = "get_signal", !.ty = signal_type,
                        !.ret = GetSignal(sm, signal_type)]
    /\ UNCHANGED <<kvars, mmu, tty, uh, irq>>

SigDelete(signal_type) ==
    /\ ~sm.panic
    /\ LET r == DeleteSignal(sm, signal_type)
       IN  sm' = [sm EXCEPT !.signal_bitmap = r.signal_bitmap, !.signals = r.signals,
                           !.panic = r.panic,
                           !.op = "delete_signal", !.ty = signal_type, !.ret = <<>>]
    /\ UNCHANGED <<kvars, mmu, tty, uh, irq>>

SignalNext ==
    \/ \E t \in SignalTypes, s \in Signals : SigRegister(t, s)
    \/ \E t \in SignalTypes : SigGet(t)
    \/ \E t \in SignalTypes : SigDelete(t)

SpecSignal == SchedInit /\ [][SignalNext]_vars

\* the bits set are the types of the stored signals: the state every history
\* reaches in which each signal was registered under its own ty
TypesMatchBits(m) == m.signal_bitmap = {m.signals[i].ty : i \in 1..Len(m.signals)}

\* the signals of q whose ty is not signal_type, in their order
OtherSignals(q, signal_type) == SelectSeq(q, LAMBDA s : s.ty # signal_type)

(***************************************************************************)
(* C21: after delete_signal(t), for any stored list of signals (any number *)
(* and any positions of signals of type t): has_signal(t) is false, no     *)
(* signal of type t remains in the list, the signals of other types remain *)
(* in their original relative order, and the call completes without        *)
(* failure.                                                                *)
(***************************************************************************)
C21_DeleteRemovesAllOfType ==
    [][\A t \in SignalTypes :
          TypesMatchBits(sm) /\ SigDelete(t) =>
              /\ ~sm'.panic
              /\ ~HasSignal(sm', t)
              /\ sm'.signals = OtherSignals(sm.signals, t)]_vars

\* the positions of q that hold a signal whose ty is signal_type
PositionsOf(q, signal_type) == {i \in 1..Len(q) : q[i].ty = signal_type}

(***************************************************************************)
(* C22: get_signal(t) returns the earliest-registered signal still stored  *)
(* whose ty is t and changes neither the signal list nor the presence      *)
(* bitmap; it returns none exactly when bit t is clear (no signal has been *)
(* registered under type t since the last delete_signal(t)) or no stored   *)
(* signal has ty = t.                                                      *)
(***************************************************************************)
C22_GetReturnsEarliest ==
    [][\A t \in SignalTypes :
          SigGet(t) =>
              /\ sm'.signals = sm.signals
              /\ sm'.signal_bitmap = sm.signal_bitmap
              /\ (sm'.ret = <<>>) <=> (~HasSignal(sm, t) \/ PositionsOf(sm.signals, t) = {})
              /\ sm'.ret # <<>> =>
                     \E i \in PositionsOf(sm.signals, t) :
                         /\ sm'.ret = <<sm.signals[i]>>
                         /\ \A j \in PositionsOf(sm.signals, t) : i <= j]_vars

\* get_signal(t) has returned the first of two stored signals of type t that differ
C22_Witness ==
    /\ sm.op = "get_signal"
    /\ sm.ret # <<>>
    /\ \E i, j \in PositionsOf(sm.signals, sm.ty) :
           i < j /\ <<sm.signals[i]>> = sm.ret /\ <<sm.signals[j]>> # sm.ret

\* C22 as stated: none exactly when no signal has been registered under t since
\* the last delete_signal(t), which is when bit t is clear
C22_NoneExactlyWhenBitClear ==
    [][\A t \in SignalTypes : SigGet(t) => ((sm'.ret = <<>>) <=> ~HasSignal(sm, t))]_vars

(***************************************************************************)
(* memory/page_table.rs and console/tty.rs: the page tables as they lie in *)
(* memory.  A table is PtEntries entries; an entry holds the frame it      *)
(* points at (None when unused) and the HUGE_PAGE flag.  A page is its     *)
(* number; its index in the table of a level is a digit of the number.     *)
(***************************************************************************)
RECURSIVE Pow(_, _)
Pow(b, e) == IF e = 0 THEN 1 ELSE b * Pow(b, e - 1)

Pages == 0..(Pow(PtEntries, PtLevels) - 1)
\* Page::p4_index .. Page::p1_index
PtIndex(p, level) == ((p \div Pow(PtEntries, level - 1)) % PtEntries) + 1

PtEntry(addr) == [addr |-> addr, huge |-> FALSE]
\* PageTableEntry::is_unused
IsUnused(entry) == entry.addr = None
EmptyTable == [i \in 1..PtEntries |-> PtEntry(None)]

\* the memory of the tables with entry index of the table in frame f written
PtStore(ptab, f, index, entry) ==
    IF f \in DOMAIN ptab THEN [ptab EXCEPT ![f][index] = entry]
    ELSE (f :> [EmptyTable EXCEPT ![index] = entry]) @@ ptab

RECURSIVE TableAt(_, _, _, _, _)
\* the table of level `to` on the way to page p from the table of level `level`
TableAt(ptab, table, p, level, to) ==
    IF level = to THEN table
    ELSE LET entry == ptab[table][PtIndex(p, level)]
         IN  IF IsUnused(entry) \/ entry.huge THEN None
             ELSE TableAt(ptab, entry.addr, p, level - 1, to)

\* Mapper::translate_page
TranslatePage(ptab, root, p) ==
    LET p1 == TableAt(ptab, root, p, PtLevels, 1)
    IN  IF p1 = None THEN None ELSE ptab[p1][PtIndex(p, 1)].addr

\* the state a call works on: the tables, the frame allocator, whether it panicked
PtState(ptab, a, panic) == [ptab |-> ptab, a |-> a, panic |-> panic]

RECURSIVE MapWalk(_, _, _, _, _)
\* map_to(page, frame, ..).unwrap() from the table of a level down: a missing
\* table is taken from the frame allocator and zeroed; an error panics
MapWalk(st, table, p, level, frame) ==
    LET entry == st.ptab[table][PtIndex(p, level)]
        r == AllocateFrame(st.a.bitmap, st.a.usable_frames, st.a.next_frame)
        nt == r.res \div FrameSize
    IN  IF level = 1
        THEN IF IsUnused(entry)
             THEN [st EXCEPT !.ptab = PtStore(st.ptab, table, PtIndex(p, 1), PtEntry(frame))]
             ELSE [st EXCEPT !.panic = TRUE]
        ELSE IF IsUnused(entry)
        THEN IF r.res = None THEN [st EXCEPT !.panic = TRUE]
             ELSE MapWalk(PtState(PtStore((nt :> EmptyTable) @@ st.ptab, table,
                                          PtIndex(p, level), PtEntry(nt)),
                                  Allocator(r.bitmap, r.usable_frames, r.next_frame), FALSE),
                          nt, p, level - 1, frame)
        ELSE IF entry.huge THEN [st EXCEPT !.panic = TRUE]
        ELSE MapWalk(st, entry.addr, p, level - 1, frame)

MapTo(st, root, p, frame) == MapWalk(st, root, p, PtLevels, frame)

\* unmap(page).unwrap(): the frame the page was mapped to, the entry cleared
Unmap(st, root, p) ==
    LET p1 == TableAt(st.ptab, root, p, PtLevels, 1)
    IN  IF p1 = None \/ IsUnused(st.ptab[IF p1 = None THEN root ELSE p1][PtIndex(p, 1)])
        THEN [st |-> [st EXCEPT !.panic = TRUE], frame |-> None]
        ELSE [st |-> [st EXCEPT !.ptab = PtStore(st.ptab, p1, PtIndex(p, 1), PtEntry(None))],
              frame |-> st.ptab[p1][PtIndex(p, 1)].addr]

RECURSIVE NewFromRecursionShallow(_, _, _, _, _)
NewFromRecursionShallow(st, source, target, level, index) ==
    IF st.panic \/ index > PtEntries THEN st
    ELSE NewFromRecursionShallow(
             [st EXCEPT !.ptab = PtStore(st.ptab, target, index, st.ptab[source][index])],
             source, target, level, index + 1)

RECURSIVE NewFromRecursion(_, _, _, _, _)
\* new_from_recursion from entry index on: a leaf, unused or huge entry is copied,
\* any other entry gets a table of its own (GeneralPageTable::new, which panics
\* when no frame is left) filled from the table the source entry points at
NewFromRecursion(st, source, target, level, index) ==
    IF st.panic \/ index > PtEntries THEN st
    ELSE LET entry == st.ptab[source][index]
             r == AllocateFrame(st.a.bitmap, st.a.usable_frames, st.a.next_frame)
             nt == r.res \div FrameSize
         IN  IF level = 1 \/ IsUnused(entry) \/ entry.huge
             THEN NewFromRecursion([st EXCEPT !.ptab = PtStore(st.ptab, target, index, entry)],
                                   source, target, level, index + 1)
             ELSE IF r.res = None THEN [st EXCEPT !.panic = TRUE]
             ELSE NewFromRecursion(
                      NewFromRecursion(
                          PtState(PtStore(st.ptab, target, index, PtEntry(nt)),
                                  Allocator(r.bitmap, r.usable_frames, r.next_frame), FALSE),
                          entry.addr, nt, level - 1, 1),
                      source, target, level, index + 1)

\* new_from_address: the clone's level-4 table and the state afterwards
NewFromAddress(st, source) ==
    LET r == AllocateFrame(st.a.bitmap, st.a.usable_frames, st.a.next_frame)
        nt == r.res \div FrameSize
    IN  IF r.res = None THEN [st |-> [st EXCEPT !.panic = TRUE], root |-> None]
        ELSE [st |-> NewFromRecursion(
                         PtState(st.ptab, Allocator(r.bitmap, r.usable_frames, r.next_frame),
                                 FALSE),
                         source, nt, PtLevels, 1),
              root |-> nt]

(***************************************************************************)
(* The kernel's address space at console::init: the buffers of the TTYs on *)
(* the kernel heap, one frame to a page, and the frame buffer.             *)
(***************************************************************************)
TTYs == 0..(NTty - 1)
TtyPage(t, k) == t * TtyPages + k
VramPage(k) == NTty * TtyPages + k
KernelPages == 0..(NTty * TtyPages + TtyPages - 1)
\* the pages the kernel's table leaves to the processes
UserPages == Pages \ KernelPages

RECURSIVE BootMap(_, _, _, _)
\* the kernel's table built page by page; fb: the first frame of the frame buffer
BootMap(st, root, p, fb) ==
    IF p > NTty * TtyPages + TtyPages - 1 THEN st
    ELSE IF p >= NTty * TtyPages
    THEN BootMap(MapTo(st, root, p, fb + (p - NTty * TtyPages)), root, p + 1, fb)
    ELSE LET t == TakeFrames(st.a, 1, <<>>)
         IN  BootMap(MapTo(PtState(st.ptab, t.a, FALSE), root, p, t.frames[1]),
                     root, p + 1, fb)

\* the table's root is the first frame taken
BootTables(a, fb) ==
    LET t == TakeFrames(a, 1, <<>>)
    IN  [root |-> t.frames[1],
         st |-> BootMap(PtState(t.frames[1] :> EmptyTable, t.a, FALSE), t.frames[1], 0, fb)]

\* the frame buffer: TtyPages frames of reserved memory, FbGap frames above
\* the last frame the kernel has taken by then
FbBase ==
    BootTables(AllocatorInit(MemoryMapOf(ProcFrames, 0, 0)), 0).st.a.next_frame + FbGap
\* the frames of the frame buffer that starts at frame fb
FbFrames(fb) == fb..(fb + TtyPages - 1)

DisplayMap ==
    <<Region(0, FbBase, TRUE), Region(FbBase, FbBase + TtyPages, FALSE),
      Region(FbBase + TtyPages, ProcFrames, TRUE)>>

KernelBoot == BootTables(AllocatorInit(DisplayMap), FbBase)
\* KERNEL_PAGE_TABLE.physical_address
KernelRoot == KernelBoot.root

\* the pixels of a frame; a frame never written holds 0
Pix(data, f) == IF f \in DOMAIN data THEN data[f] ELSE 0
Poke(data, f, v) == IF f \in DOMAIN data THEN [data EXCEPT ![f] = v] ELSE (f :> v) @@ data

\* what the kernel reads at the pages from page on
ImageAt(ptab, root, data, page) ==
    [k \in 0..(TtyPages - 1) |-> Pix(data, TranslatePage(ptab, root, page + k))]

RECURSIVE CopyFromSlice(_, _, _, _, _, _)
\* dst.copy_from_slice(src) through the kernel's table, page k and the pages after
CopyFromSlice(ptab, root, data, dst, src, k) ==
    IF k >= TtyPages THEN data
    ELSE CopyFromSlice(ptab, root,
                       Poke(data, TranslatePage(ptab, root, dst + k),
                            Pix(data, TranslatePage(ptab, root, src + k))),
                       dst, src, k + 1)

RECURSIVE Outgoing(_, _, _, _)
\* lines 79-103: every page of the last TTY's buffer is unmapped and mapped to a
\* frame just allocated
Outgoing(st, root, last, page_cnt) ==
    IF st.panic \/ page_cnt >= TtyPages THEN st
    ELSE LET r == AllocateFrame(st.a.bitmap, st.a.usable_frames, st.a.next_frame)
             u == Unmap(PtState(st.ptab, Allocator(r.bitmap, r.usable_frames, r.next_frame),
                                FALSE),
                        root, TtyPage(last, page_cnt))
         IN  IF r.res = None THEN [st EXCEPT !.panic = TRUE]
             ELSE IF u.st.panic THEN u.st
             ELSE Outgoing(MapTo(u.st, root, TtyPage(last, page_cnt), r.res \div FrameSize),
                           root, last, page_cnt + 1)

\* one round of the loop of lines 118-144: the page is unmapped, the frame it
\* was mapped to is deallocated, the page is mapped to the frame of vram_ptr
Remap(st, root, page, vram_page) ==
    LET frame == TranslatePage(st.ptab, root, vram_page)
        u == Unmap(st, root, page)
        d == DeallocateFrame(u.st.a.bitmap, u.st.a.usable_frames, u.st.a.next_frame, u.frame)
    IN  IF frame = None THEN [st EXCEPT !.panic = TRUE]
        ELSE IF u.st.panic THEN u.st
        ELSE MapTo(PtState(u.st.ptab, Allocator(d.bitmap, d.usable_frames, d.next_frame),
                           FALSE),
                   root, page, frame)

RECURSIVE Incoming(_, _, _, _)
\* the loop of lines 118-144 runs once for every byte of the buffer: the round
\* of a page's first byte and the round of its second byte, which the rounds of
\* the other bytes of the page repeat
Incoming(st, root, t, k) ==
    IF st.panic \/ k >= TtyPages THEN st
    ELSE LET first == Remap(st, root, TtyPage(t, k), VramPage(k))
         IN  IF first.panic THEN first
             ELSE Incoming(Remap(first, root, TtyPage(t, k), VramPage(k)), root, t, k + 1)

\* switch_to(t): the tables, the allocator and the pixels afterwards
SwitchToOf(st, root, data, init, last, t) ==
    LET out == IF init THEN Outgoing(st, root, last, 0) ELSE st
        kept == IF init /\ ~out.panic
                THEN CopyFromSlice(out.ptab, root, data, TtyPage(last, 0), VramPage(0), 0)
                ELSE data
        shown == IF out.panic THEN kept
                 ELSE CopyFromSlice(out.ptab, root, kept, VramPage(0), TtyPage(t, 0), 0)
    IN  [st |-> Incoming(out, root, t, 0), data |-> shown]

\* the state before tty::init; what the buffers hold is what the heap held
DisplayInit ==
    /\ bitmap = KernelBoot.st.a.bitmap
    /\ usable_frames = KernelBoot.st.a.usable_frames
    /\ next_frame = KernelBoot.st.a.next_frame
    /\ owned = {}
    /\ fret = [op |-> "init", cnt |-> 0, res |-> None]
    /\ pmem = <<>>
    /\ SchedStatics
    /\ sm = NewSignalManager
    /\ uh = NoHeap
    /\ irq = NoInterrupts
    /\ mmu = [ptab |-> KernelBoot.st.ptab, clones |-> <<>>, panic |-> FALSE,
              kroot |-> KernelRoot, fb |-> FbBase]
    /\ \E img \in [TTYs -> 0..MaxPixel] :
          tty = [cur |-> 0, init |-> FALSE, n |-> 0, arg |-> None, last |-> None,
                 shown |-> <<>>,
                 data |-> [f \in {TranslatePage(KernelBoot.st.ptab, KernelRoot, p) :
                                      p \in KernelPages} |->
                              IF \E t \in TTYs :
                                    f = TranslatePage(KernelBoot.st.ptab, KernelRoot,
                                                      TtyPage(t, 0)) /\ img[t] = 1
                              THEN 1 ELSE 0]]

\* what every step of this part leaves alone
DisplayFrame == UNCHANGED <<nvars, sm, uh, irq>>

\* the allocator and the tables after a call
Commit(st) ==
    /\ bitmap' = st.a.bitmap
    /\ usable_frames' = st.a.usable_frames
    /\ next_frame' = st.a.next_frame

Here == PtState(mmu.ptab, Allocator(bitmap, usable_frames, next_frame), FALSE)

\* tty::init: switch_to(0) before INIT is set
TtyInit ==
    /\ ~tty.init /\ ~mmu.panic
    /\ LET r == SwitchToOf(Here, mmu.kroot, tty.data, FALSE, tty.cur, 0)
       IN  /\ Commit(r.st)
           /\ mmu' = [mmu EXCEPT !.ptab = r.st.ptab, !.panic = r.st.panic]
           /\ tty' = [tty EXCEPT !.cur = 0, !.init = ~r.st.panic, !.data = r.data,
                                 !.arg = 0, !.last = None, !.shown = <<>>]
    /\ DisplayFrame

\* switch_to(t) after tty::init
SwitchTo(t) ==
    /\ tty.init /\ ~mmu.panic
    /\ tty.n < MaxSwitch
    /\ LET r == SwitchToOf(Here, mmu.kroot, tty.data, TRUE, tty.cur, t)
       IN  /\ Commit(r.st)
           /\ mmu' = [mmu EXCEPT !.ptab = r.st.ptab, !.panic = r.st.panic]
           /\ tty' = [tty EXCEPT !.cur = t, !.data = r.data, !.n = @ + 1,
                                 !.arg = t, !.last = tty.cur,
                                 !.shown = ImageAt(mmu.ptab, mmu.kroot, tty.data, VramPage(0))]
    /\ DisplayFrame

\* the terminal draws on TTY t: TTY::write_pixel through the kernel's table
WritePixel(t, v) ==
    /\ tty.init /\ ~mmu.panic
    /\ \E k \in 0..(TtyPages - 1) :
          tty' = [tty EXCEPT !.data = Poke(@, TranslatePage(mmu.ptab, mmu.kroot,
                                                           TtyPage(t, k)), v)]
    /\ tty'.data # tty.data
    /\ UNCHANGED <<avars, mmu>>
    /\ DisplayFrame

\* create_page_table_from_kernel for a new process
CreatePageTableFromKernel ==
    /\ tty.init /\ ~mmu.panic
    /\ Len(mmu.clones) < MaxClones
    /\ LET r == NewFromAddress(Here, mmu.kroot)
       IN  /\ Commit(r.st)
           /\ mmu' = [mmu EXCEPT !.ptab = r.st.ptab, !.panic = r.st.panic,
                                 !.clones = IF r.st.panic THEN @ ELSE Append(@, r.root)]
    /\ UNCHANGED tty
    /\ DisplayFrame

\* one round of sbrk's loop for the process of clone c: a frame is allocated and
\* mapped at the next page of the heap, here page p
MapHeapPage(c, p) ==
    /\ tty.init /\ ~mmu.panic
    /\ TranslatePage(mmu.ptab, mmu.clones[c], p) = None
    /\ LET r == AllocateFrame(bitmap, usable_frames, next_frame)
           m == MapTo(PtState(mmu.ptab, Allocator(r.bitmap, r.usable_frames, r.next_frame),
                              FALSE),
                      mmu.clones[c], p, r.res \div FrameSize)
       IN  IF r.res = None
           THEN mmu' = [mmu EXCEPT !.panic = TRUE] /\ UNCHANGED avars
           ELSE Commit(m) /\ mmu' = [mmu EXCEPT !.ptab = m.ptab, !.panic = m.panic]
    /\ UNCHANGED tty
    /\ DisplayFrame

DisplayNext ==
    \/ TtyInit
    \/ \E t \in TTYs : SwitchTo(t)
    \/ \E t \in TTYs, v \in 0..MaxPixel : WritePixel(t, v)
    \/ CreatePageTableFromKernel
    \/ \E c \in 1..Len(mmu.clones), p \in UserPages : MapHeapPage(c, p)

SpecDisplay == DisplayInit /\ [][DisplayNext]_vars

(***************************************************************************)
(* C23: every live process's kernel-half page translates the same as in    *)
(* the kernel page table, also after the kernel page table is modified     *)
(* after the process's creation (e.g. by a TTY switch).                    *)
(***************************************************************************)
C23_KernelHalfShared ==
    ~mmu.panic =>
        \A c \in 1..Len(mmu.clones), p \in KernelPages :
            TranslatePage(mmu.ptab, mmu.clones[c], p) = TranslatePage(mmu.ptab, mmu.kroot, p)

RECURSIVE TablesFrom(_, _, _)
\* the frames of the tables reached from a table of a level, the table included
TablesFrom(ptab, table, level) ==
    IF level = 1 THEN {table}
    ELSE {table} \cup
         UNION {TablesFrom(ptab, ptab[table][i].addr, level - 1) :
                    i \in {j \in 1..PtEntries :
                               ~IsUnused(ptab[table][j]) /\ ~ptab[table][j].huge}}

TablesOf(ptab, root) == TablesFrom(ptab, root, PtLevels)

BufferFrame(m, t, k) == TranslatePage(m.ptab, m.kroot, TtyPage(t, k))

\* what switch_to is to leave: the TTY asked for is the current one and its
\* buffer lies on the frame buffer, every other TTY's buffer lies on frames of
\* its own, and the TTY shown before holds the image that was on the screen
SwitchPost(m, y) ==
    /\ y.cur = y.arg
    /\ \A k \in 0..(TtyPages - 1) : BufferFrame(m, y.cur, k) = m.fb + k
    /\ \A t \in TTYs \ {y.cur} : \A k \in 0..(TtyPages - 1) :
          /\ BufferFrame(m, t, k) # None
          /\ BufferFrame(m, t, k) \notin FbFrames(m.fb)
          /\ \A t2 \in TTYs, k2 \in 0..(TtyPages - 1) :
                <<t2, k2>> # <<t, k>> => BufferFrame(m, t2, k2) # BufferFrame(m, t, k)
    /\ (y.last # None /\ y.last # y.cur) =>
          ImageAt(m.ptab, m.kroot, y.data, TtyPage(y.last, 0)) = y.shown

(***************************************************************************)
(* C29: after any sequence of switch_to calls that ends with switch_to(t): *)
(* CURRENT_TTY = t, the pages of TTY t's buffer map to the frames of the   *)
(* frame buffer, the pages of every other TTY's buffer map to private      *)
(* frames, and the buffer of the TTY visible before holds the last image   *)
(* shown.                                                                  *)
(***************************************************************************)
C29_SwitchLeavesOneVisible ==
    [][(TtyInit \/ \E t \in TTYs : SwitchTo(t)) /\ ~mmu'.panic => SwitchPost(mmu', tty')]_vars

(***************************************************************************)
(* memory/user_heap.rs: a user ProcessHeap under direct calls.  The arena  *)
(* (the talc allocator) is the bytes of its span and the sizes of the      *)
(* allocations it holds; an allocation fits when the bytes held and the    *)
(* bytes asked for are within the span.                                    *)
(***************************************************************************)
RECURSIVE SumSeq(_)
SumSeq(q) == IF q = <<>> THEN 0 ELSE Head(q) + SumSeq(Tail(q))

\* ProcessHeap::new(HeapType::User): the arena claims its span at the first
\* allocation that finds no room (ClaimOnOom)
NewHeap ==
    [size |-> USER_HEAP_INIT_SIZE, usable_size |-> USER_HEAP_INIT_SIZE, span |-> 0,
     claimed |-> FALSE, held |-> <<>>, inited |-> FALSE, sbrks |-> 0,
     pages |-> <<>>, op |-> "new", arg |-> 0, ret |-> None, panic |-> FALSE]

\* the memory of the machine, in frames: too little for the heap's first pages,
\* enough for them but not for a large sbrk, plenty
HeapMemories == {HeapPages, 3 * HeapPages, ProcFrames}

HeapSpecInit ==
    /\ \E n \in HeapMemories :
          /\ bitmap = AllocatorInit(MemoryMapOf(n, 0, 0)).bitmap
          /\ usable_frames = AllocatorInit(MemoryMapOf(n, 0, 0)).usable_frames
          /\ next_frame = AllocatorInit(MemoryMapOf(n, 0, 0)).next_frame
    /\ owned = {}
    /\ fret = [op |-> "init", cnt |-> 0, res |-> None]
    /\ pmem = <<>>
    /\ SchedStatics
    /\ sm = NewSignalManager
    /\ mmu = NoPageTables
    /\ tty = NoTTY
    /\ irq = NoInterrupts
    /\ uh = NewHeap

\* what every call on the heap leaves alone
HeapFrame == UNCHANGED <<nvars, sm, mmu, tty, irq>>

\* n rounds of `allocate_frame().unwrap(); map_to(..).unwrap()`: the allocator
\* afterwards and the rounds that were completed before a panic
MapRounds(n) == TakeFrames(Allocator(bitmap, usable_frames, next_frame), n, <<>>)

\* the frames mapped at pages among the frames init has taken: the first one,
\* and those after the frames the first map_to took for the tables
LeafFrames(frames) ==
    IF frames = <<>> THEN <<>>
    ELSE <<frames[1]>> \o SubSeq(frames, TableLevels + 2, Len(frames))

\* ProcessHeap::init: the pages of the initial heap are mapped, the first
\* map_to taking the frames of the tables on the way to HEAP_START
ProcessHeapInit ==
    /\ ~uh.inited /\ ~uh.panic
    /\ LET t == MapRounds(HeapPages + TableLevels)
       IN  /\ Commit([a |-> t.a])
           /\ uh' = [uh EXCEPT !.inited = TRUE, !.op = "init", !.arg = 0, !.ret = None,
                               !.sbrks = 0, !.pages = LeafFrames(t.frames),
                               !.panic = Len(t.frames) < HeapPages + TableLevels]
    /\ HeapFrame

SbrkRequestExact(size) == size

\* the size allocate passes to sbrk
SbrkRequest(size) == size * 2

\* page_cnt of sbrk
SbrkPages(size) == (size + FrameSize - 1) \div FrameSize

\* Talck::allocate: whether the arena of span bytes has room for size more
ArenaFits(h, span, size) == SumSeq(h.held) + size <= span

\* the span after the first try of an allocation: an arena that finds no room
\* and has not claimed its span claims it
SpanAfterTry(h, size) ==
    IF ~ArenaFits(h, h.span, size) /\ ~h.claimed THEN USER_HEAP_INIT_SIZE ELSE h.span

\* allocate(layout) for layout.size() = size; honoured: whether the arena takes
\* the span sbrk hands it when that span's old end is not the arena's end
HeapAllocate(size, honoured) ==
    /\ uh.inited /\ ~uh.panic
    /\ Len(uh.held) < MaxAllocs
    /\ LET span1 == SpanAfterTry(uh, size)
           page_cnt == SbrkPages(SbrkRequest(size))
           t == MapRounds(page_cnt)
           size2 == uh.size + Len(t.frames) * FrameSize
           span2 == uh.size + SbrkRequest(size)
       IN  IF ArenaFits(uh, span1, size)
           THEN /\ honoured
                /\ \E checks \in BOOLEAN :
                      IF uh.usable_size < size /\ checks
                      THEN \* usable_size -= size traps in a build with overflow checks
                           uh' = [uh EXCEPT !.span = span1, !.claimed = TRUE, !.sbrks = 0,
                                            !.op = "allocate", !.arg = size, !.ret = None,
                                            !.panic = TRUE]
                      ELSE \* and wraps otherwise: no decision reads usable_size, the
                           \* wrapped value is kept as the number it is modulo 2^64
                           uh' = [uh EXCEPT !.span = span1, !.claimed = TRUE,
                                            !.held = Append(@, size),
                                            !.usable_size = @ - size, !.sbrks = 0,
                                            !.op = "allocate", !.arg = size, !.ret = size]
                /\ UNCHANGED avars
           ELSE /\ honoured \/ span1 # uh.size
                /\ Commit([a |-> t.a])
                /\ IF Len(t.frames) < page_cnt \/ ~honoured
                      \/ ~ArenaFits(uh, span2, size)
                   THEN uh' = [uh EXCEPT !.span = span2, !.claimed = TRUE,
                                         !.size = size2, !.pages = @ \o t.frames,
                                         !.usable_size = @ + Len(t.frames) * FrameSize,
                                         !.sbrks = 1, !.op = "allocate", !.arg = size,
                                         !.ret = None, !.panic = TRUE]
                   ELSE uh' = [uh EXCEPT !.span = span2, !.claimed = TRUE,
                                         !.size = size2, !.pages = @ \o t.frames,
                                         !.held = Append(@, size),
                                         !.usable_size = @ + page_cnt * FrameSize - size,
                                         !.sbrks = 1, !.op = "allocate", !.arg = size,
                                         !.ret = size]
    /\ HeapFrame

\* deallocate of the i-th allocation held
HeapDeallocate(i) ==
    /\ uh.inited /\ ~uh.panic
    /\ uh' = [uh EXCEPT !.held = SubSeq(@, 1, i - 1) \o SubSeq(@, i + 1, Len(@)),
                        !.usable_size = @ + uh.held[i], !.sbrks = 0,
                        !.op = "deallocate", !.arg = uh.held[i], !.ret = None]
    /\ UNCHANGED avars
    /\ HeapFrame

\* clear(): every page of the heap is unmapped and its frame given back, size
\* and usable_size are 0; the arena is not touched
HeapClearPages ==
    /\ uh.inited /\ ~uh.panic
    /\ uh.size > 0
    /\ Commit([a |-> GiveFrames(Allocator(bitmap, usable_frames, next_frame), uh.pages)])
    /\ uh' = [uh EXCEPT !.pages = <<>>, !.size = 0, !.usable_size = 0, !.sbrks = 0,
                        !.op = "clear", !.arg = 0, !.ret = None]
    /\ HeapFrame

\* the sizes asked for
AllocSizes == {1, FrameSize, USER_HEAP_INIT_SIZE, USER_HEAP_INIT_SIZE + 1}

HeapNext ==
    \/ ProcessHeapInit
    \/ \E size \in AllocSizes, honoured \in BOOLEAN : HeapAllocate(size, honoured)
    \/ \E i \in 1..Len(uh.held) : HeapDeallocate(i)
    \/ HeapClearPages

SpecHeap == HeapSpecInit /\ [][HeapNext]_vars

\* size rounded up to whole pages
PageRound(size) == SbrkPages(size) * FrameSize

(***************************************************************************)
(* C25: the user heap starts at 128 KiB; while it has that size and the    *)
(* frame allocator has the frames sbrk asks for, a single allocate of      *)
(* 128 KiB + 1 byte calls sbrk exactly once, succeeds and leaves the heap  *)
(* at 128 KiB plus 2 * (128 KiB + 1) bytes rounded up to pages, which is   *)
(* at least 256 KiB + 1 byte rounded up to 4 KiB pages.                    *)
(***************************************************************************)
C25_OneSbrkForInitPlusOne ==
    [][/\ NewHeap.size = 128 * 1024
       /\ \A honoured \in BOOLEAN :
              (/\ HeapAllocate(USER_HEAP_INIT_SIZE + 1, honoured)
               /\ uh.size = USER_HEAP_INIT_SIZE
               /\ usable_frames >= SbrkPages(2 * (USER_HEAP_INIT_SIZE + 1)))
              => /\ uh'.sbrks = 1
                 /\ ~uh'.panic
                 /\ uh'.ret # None
                 /\ uh'.size = USER_HEAP_INIT_SIZE + PageRound(2 * (USER_HEAP_INIT_SIZE + 1))
                 /\ uh'.size >= PageRound(256 * 1024 + 1)]_vars

\* allocate(128 KiB + 1) has grown a heap of the initial size by one sbrk
C25_Witness ==
    /\ uh.op = "allocate" /\ uh.arg = USER_HEAP_INIT_SIZE + 1
    /\ uh.sbrks = 1 /\ uh.ret # None /\ ~uh.panic
    /\ uh.size = USER_HEAP_INIT_SIZE + PageRound(2 * (USER_HEAP_INIT_SIZE + 1))

(***************************************************************************)
(* C26: when the frame allocator has no free frame, the operations that    *)
(* map user memory (the heap's init, and allocate through sbrk) report the *)
(* failure as a value and do not panic.                                    *)
(***************************************************************************)
C26_NoPanicWithoutFrames ==
    [][(ProcessHeapInit \/ \E size \in AllocSizes : HeapAllocate(size, TRUE))
          => ~uh'.panic]_vars

(***************************************************************************)
(* arch/interrupts.rs: the table of handlers and the dispatch through      *)
(* do_irq on one CPU.  A dispatch is two steps, the entry into the handler *)
(* and the handler's end, because the table's mutex is held in between.    *)
(***************************************************************************)
INTERRUPT_INDEX_OFFSET == 32
\* InterruptIndex
Timer == INTERRUPT_INDEX_OFFSET
ApicError == INTERRUPT_INDEX_OFFSET + 1
ApicSpurious == INTERRUPT_INDEX_OFFSET + 2
Keyboard == INTERRUPT_INDEX_OFFSET + 3
Mouse == INTERRUPT_INDEX_OFFSET + 4
\* the vectors of the CPU are the values of a u8
LastVector == 255
\* the vectors 0..255 of set_general_handler! and of irq_manager_init: a Rust
\* range leaves its end out
GeneralVectors == 0..(LastVector - 1)

\* the vectors dispatched and registered: the timer, the keyboard, a device
\* vector of the next priority class, and the two highest vectors
IrqInputs == {Timer, Keyboard, Timer + 16, LastVector - 1, LastVector}
\* the handlers a driver registers
DriverHandlers == {"irq_default_handler", "driver_handler"}

\* the table when the IDT has been built (lines 41-46)
IdtTable ==
    [i \in GeneralVectors |->
        IF i = Timer THEN "timer_interrupt"
        ELSE IF i = ApicError THEN "lapic_error"
        ELSE IF i = ApicSpurious THEN "spurious_interrupt"
        ELSE IF i = Keyboard THEN "keyboard_interrupt"
        ELSE IF i = Mouse THEN "mouse_interrupt"
        ELSE "irq_default_handler"]

\* pc: where the CPU is; v, invoked: the vector and the handler of the last
\* dispatch; locked: INTERRUPTS_TABLE's mutex; in_service: the vectors the
\* local APIC has delivered and has had no EOI for
IdtLoaded ==
    [table |-> IdtTable, locked |-> FALSE, pc |-> "run", v |-> None, invoked |-> "none",
     in_service |-> {}, op |-> "init"]

IrqInit ==
    /\ bitmap = AllocatorInit(MemoryMapOf(ProcFrames, 0, 0)).bitmap
    /\ usable_frames = AllocatorInit(MemoryMapOf(ProcFrames, 0, 0)).usable_frames
    /\ next_frame = AllocatorInit(MemoryMapOf(ProcFrames, 0, 0)).next_frame
    /\ owned = {}
    /\ fret = [op |-> "init", cnt |-> 0, res |-> None]
    /\ pmem = <<>>
    /\ SchedStatics
    /\ sm = NewSignalManager
    /\ mmu = NoPageTables
    /\ tty = NoTTY
    /\ uh = NoHeap
    /\ irq = IdtLoaded

IrqFrame == UNCHANGED <<kvars, sm, mmu, tty, uh>>

\* BTreeMap::insert
TableInsert(table, v, handler) ==
    [i \in DOMAIN table \cup {v} |-> IF i = v THEN handler ELSE table[i]]

\* irq_register: a caller that finds the mutex held spins
IrqRegister(v, handler) ==
    /\ irq.pc = "run"
    /\ irq' = IF irq.locked THEN [irq EXCEPT !.pc = "spin", !.op = "irq_register"]
              ELSE [irq EXCEPT !.table = TableInsert(@, v, handler), !.op = "irq_register"]
    /\ IrqFrame

\* irq_unregister: todo!()
IrqUnregister(v) ==
    /\ irq.pc = "run"
    /\ irq' = [irq EXCEPT !.pc = "panic", !.op = "irq_unregister"]
    /\ IrqFrame

\* the local APIC delivers a vector of a priority class above those in service
Deliverable(v) == \A u \in irq.in_service : v \div 16 > u \div 16

\* the CPU takes vector v: a vector without a gate faults; do_irq locks the
\* table, looks the handler up and calls it
Dispatch(v) ==
    /\ irq.pc = "run"
    /\ Deliverable(v)
    /\ irq' = IF v \notin GeneralVectors
              THEN [irq EXCEPT !.pc = "fault", !.v = v, !.op = "dispatch"]
              ELSE IF irq.locked
              THEN [irq EXCEPT !.pc = "spin", !.v = v, !.op = "dispatch",
                               !.in_service = @ \cup {v}]
              ELSE IF v \notin DOMAIN irq.table
              THEN [irq EXCEPT !.pc = "panic", !.v = v, !.op = "dispatch", !.locked = TRUE,
                               !.in_service = @ \cup {v}]
              ELSE [irq EXCEPT !.pc = "handler", !.v = v, !.invoked = irq.table[v],
                               !.op = "dispatch", !.locked = TRUE,
                               !.in_service = @ \cup {v}]
    /\ IrqFrame

\* a handler returns to do_irq: end_of_interrupt, then the guard is dropped
HandlerReturn ==
    /\ irq.pc = "handler"
    /\ irq.invoked # "timer_interrupt"
    /\ irq' = [irq EXCEPT !.pc = "run", !.locked = FALSE, !.op = "return",
                          !.in_service = @ \ {CHOOSE u \in @ : \A w \in @ : w <= u}]
    /\ IrqFrame

\* timer_interrupt ends in iretq (options(noreturn)): it does not return to
\* do_irq, whose guard is not dropped and whose EOI is not reached
TimerIret ==
    /\ irq.pc = "handler"
    /\ irq.invoked = "timer_interrupt"
    /\ irq' = [irq EXCEPT !.pc = "run", !.op = "iretq"]
    /\ IrqFrame

IrqNext ==
    \/ \E v \in IrqInputs, handler \in DriverHandlers : IrqRegister(v, handler)
    \/ \E v \in IrqInputs : IrqUnregister(v)
    \/ \E v \in IrqInputs : Dispatch(v)
    \/ HandlerReturn
    \/ TimerIret

SpecIrq == IrqInit /\ [][IrqNext]_vars

(***************************************************************************)
(* C27: dispatching a vector v in 32..255 invokes the handler most         *)
(* recently registered for v, or the default warning stub when none was;   *)
(* the lookup never fails; registering a handler for v leaves the handlers *)
(* of the other vectors unchanged; unregistering v restores the default    *)
(* handler.                                                                *)
(***************************************************************************)
C27_DispatchFindsHandler ==
    [][/\ \A v \in IrqInputs :
              Dispatch(v) =>
                  /\ irq'.pc = "handler"
                  /\ irq'.invoked = IF v \in DOMAIN irq.table THEN irq.table[v]
                                    ELSE "irq_default_handler"
       /\ \A v \in IrqInputs, handler \in DriverHandlers :
              IrqRegister(v, handler) =>
                  /\ irq'.pc = "run"
                  /\ v \in DOMAIN irq'.table /\ irq'.table[v] = handler
                  /\ \A u \in DOMAIN irq.table \ {v} :
                        u \in DOMAIN irq'.table /\ irq'.table[u] = irq.table[u]
       /\ \A v \in IrqInputs :
              IrqUnregister(v) =>
                  /\ irq'.pc = "run"
                  /\ v \in DOMAIN irq'.table /\ irq'.table[v] = "irq_default_handler"
      ]_vars

(***************************************************************************)
(* C28: every dispatch through the generic dispatcher ends with an EOI     *)
(* once the handler has finished, for every handler, the timer handler on  *)
(* vector 32 included: the step that ends the handler takes the vector out *)
(* of service.                                                             *)
(***************************************************************************)
C28_EoiAfterHandler ==
    [][irq.pc = "handler" /\ irq'.pc # "handler" => irq.v \notin irq'.in_service]_vars

(***************************************************************************)
(* C30: schedule() takes the no-switch path (it returns the context it was *)
(* given and leaves current_thread) when, after the decrement, the current *)
(* thread's vruntime is above 0 and the thread is not Terminated, whether  *)
(* it is Running, Ready, Blocked or Waiting; otherwise it takes the first  *)
(* Ready thread of its CPU in the list, when there is one.                 *)
(***************************************************************************)
C30_NoSwitchPath ==
    [][\A c \in CPUs :
          LET cur == current_thread[c]
              v == DecVruntime(thread[cur].vruntime)
          IN  (Tick(c) /\ cur # None /\ cst'[c] = "run")
              => IF v > 0 /\ thread[cur].state # "Terminated"
                 THEN /\ current_thread'[c] = cur
                      /\ sret'[c] = cur
                      /\ THREADS' = THREADS
                      /\ thread' = [thread EXCEPT ![cur].vruntime = v]
                 ELSE IF \E t \in DOMAIN thread : Eligible(thread, t, c, cur)
                 THEN /\ current_thread'[c] = GetNext(THREADS, thread, c, cur).next
                      /\ current_thread'[c] # cur
                      /\ sret'[c] = current_thread'[c]
                 ELSE current_thread'[c] = cur /\ sret'[c] = cur]_vars

\* a parked thread has been given its own context back by schedule() while a
\* Ready thread of its CPU was there
C30_Witness ==
    \E c \in CPUs :
        /\ current_thread[c] # None
        /\ sret[c] = current_thread[c]
        /\ thread[current_thread[c]].state \in {"Blocked", "Waiting"}
        /\ thread[current_thread[c]].vruntime > 0
        /\ thread[current_thread[c]].vruntime < thread[current_thread[c]].priority - 1
        /\ \E t \in DOMAIN thread : Eligible(thread, t, c, current_thread[c])

\* the statement with Blocked and Waiting on the side of Terminated: a tick
\* that leaves the current thread in place finds it Running or Ready, and a
\* parked current thread is switched away from when a Ready thread is there
C30_ParkedThreadYields ==
    [][\A c \in CPUs :
          LET cur == current_thread[c]
          IN  (Tick(c) /\ cur # None /\ cst'[c] = "run"
                  /\ \E t \in DOMAIN thread : Eligible(thread, t, c, cur))
              => /\ current_thread'[c] = cur
                     => /\ thread'[cur].vruntime > 0
                        /\ thread'[cur].state \in {"Running", "Ready"}
                 /\ thread[cur].state \in {"Blocked", "Waiting", "Terminated"}
                     => current_thread'[c] # cur]_vars

(***************************************************************************)
(* User processes that exit under the timer: the BSP's scheduler of        *)
(* scheduler::init(), kernel threads and user processes created by the     *)
(* running threads, exit() called by threads of user processes.            *)
(***************************************************************************)
RunThreads == 4

\* the thread that calls exit() belongs to a user process
UserRuns(c) == current_thread[c] # None /\ proc[thread[current_thread[c]].process].user

RunNext ==
    \/ \E c \in CPUs : Tick(c)
    \/ \E c \in CPUs : TickSpin(c)
    \/ \E c \in CPUs : NextThreadId < RunThreads /\ NewKernelThread(c)
    \/ \E c \in CPUs, held \in BOOLEAN :
          NextThreadId < RunThreads /\ NewUserProcess(c, held, 1, 1)
    \/ \E c \in CPUs, p \in DOMAIN proc :
          NextThreadId < RunThreads /\ NewUserThread(c, p, 1)
    \/ \E c \in CPUs : UserRuns(c) /\ ExitStart(c)
    \/ ExitWrite
    \/ ExitMark
    \/ ExitClear
    \/ ExitClearPages
    \/ ExitRemove

SpecRun == SchedInit /\ [][RunNext]_vars

(***************************************************************************)
(* C31: when the current thread of CPU c has been set to Terminated by     *)
(* exit() and another Ready thread with cpu_id = c exists, the next timer  *)
(* tick on c completes, without deadlock or panic, and makes a different   *)
(* thread current.                                                         *)
(***************************************************************************)
C31_TerminatedIsSwitchedAway ==
    [][\A c \in CPUs :
          LET cur == current_thread[c]
          IN  (/\ Tick(c)
               /\ cur # None
               /\ thread[cur].state = "Terminated"
               /\ \E t \in DOMAIN thread : Eligible(thread, t, c, cur))
              => /\ cst'[c] = "run"
                 /\ current_thread'[c] # cur
                 /\ sret'[c] = current_thread'[c]]_vars

(***************************************************************************)
(* C32: when no other thread is eligible on a tick (none Ready with        *)
(* cpu_id = this CPU and an id other than the current one) and the current *)
(* thread is not Terminated, schedule() returns the context it was given   *)
(* and leaves current_thread, every thread's state and cpu_id and the      *)
(* threads in the ready list unchanged.                                    *)
(***************************************************************************)
C32_NoCandidateKeepsCurrent ==
    [][\A c \in CPUs :
          LET cur == current_thread[c]
          IN  (/\ Tick(c)
               /\ cur # None
               /\ thread[cur].state # "Terminated"
               /\ ~\E t \in DOMAIN thread \ {cur} :
                      thread[t].state = "Ready" /\ thread[t].cpu_id = c)
              => /\ cst'[c] = "run"
                 /\ sret'[c] = cur
                 /\ current_thread' = current_thread
                 /\ DOMAIN thread' = DOMAIN thread
                 /\ \A t \in DOMAIN thread :
                       /\ thread'[t].state = thread[t].state
                       /\ thread'[t].cpu_id = thread[t].cpu_id
                 /\ SeqRange(THREADS') = SeqRange(THREADS)
                 /\ Len(THREADS') = Len(THREADS)]_vars

\* schedule() has given the current thread its own context back after its
\* vruntime ran out, the other threads all being on another CPU
C32_Witness ==
    \E c \in CPUs :
        /\ current_thread[c] # None
        /\ sret[c] = current_thread[c]
        /\ thread[current_thread[c]].state = "Running"
        /\ thread[current_thread[c]].vruntime < 0
        /\ Len(THREADS) > 1
        /\ ~\E t \in DOMAIN thread \ {current_thread[c]} :
               thread[t].state = "Ready" /\ thread[t].cpu_id = c

C36_ThreadDropCompletes ==
    [][/\ (ExitRemove /\ ~proc[ex.pid].dropped /\ proc'[ex.pid].dropped)
              => /\ cst'[ex.cpu] = "run"
                 /\ threads_lock' = None
                 /\ SeqRange(THREADS')
                        = SeqRange(THREADS) \ Orphans(ex.pid, current_thread)
       /\ \A c \in CPUs :
              LET cur == current_thread[c]
              IN  (/\ Tick(c)
                   /\ cur # None
                   /\ proc[thread[cur].process].dropped
                   /\ current_thread'[c] # cur)
                  => /\ cst'[c] = "run"
                     /\ threads_lock' = None
                     /\ SeqRange(THREADS') = SeqRange(THREADS) \ {cur}]_vars

C35_ReadyThreadRuns ==
    \A t \in 0..(NCpu + WakeThreads - 1) :
        (/\ t \in DOMAIN thread
         /\ thread[t].state = "Ready"
         /\ \A c \in CPUs : current_thread[c] # t)
        ~> (thread[t].state # "Ready" \/ current_thread[thread[t].cpu_id] = t)

(***************************************************************************)
(* C37: the lock of the interrupt table taken by the generic dispatcher is *)
(* released after every dispatched interrupt, a timer tick whose handler   *)
(* leaves through its own iretq included: whenever the CPU is back in the  *)
(* interrupted code the lock is free, and no dispatch and no registration  *)
(* waits for it for ever.                                                  *)
(***************************************************************************)
C37_TableLockReleased ==
    /\ irq.pc = "run" => ~irq.locked
    /\ irq.pc # "spin"

(***************************************************************************)
(* The locks of switch_to and create_page_table_from_kernel on several     *)
(* CPUs.  Both run with interrupts off; a CPU that finds a mutex held      *)
(* spins until it is released.  mmu.kpt and mmu.fa are the holders of      *)
(* KERNEL_PAGE_TABLE and FRAME_ALLOCATOR, mmu.at is where each CPU is.     *)
(***************************************************************************)
LockInit ==
    /\ bitmap = KernelBoot.st.a.bitmap
    /\ usable_frames = KernelBoot.st.a.usable_frames
    /\ next_frame = KernelBoot.st.a.next_frame
    /\ owned = {}
    /\ fret = [op |-> "init", cnt |-> 0, res |-> None]
    /\ pmem = <<>>
    /\ SchedStatics
    /\ sm = NewSignalManager
    /\ uh = NoHeap
    /\ irq = NoInterrupts
    /\ mmu = [ptab |-> KernelBoot.st.ptab, clones |-> <<>>, panic |-> FALSE,
              kroot |-> KernelRoot, fb |-> FbBase,
              kpt |-> None, fa |-> None, at |-> [c \in CPUs |-> "run"],
              req |-> [c \in CPUs |-> None]]
    /\ \E img \in [TTYs -> 0..MaxPixel] :
          tty = [cur |-> 0, init |-> FALSE, n |-> 0, arg |-> None, last |-> None,
                 shown |-> <<>>,
                 data |-> [f \in {TranslatePage(KernelBoot.st.ptab, KernelRoot, p) :
                                      p \in KernelPages} |->
                              IF \E t \in TTYs :
                                    f = TranslatePage(KernelBoot.st.ptab, KernelRoot,
                                                      TtyPage(t, 0)) /\ img[t] = 1
                              THEN 1 ELSE 0]]

\* console::init on the BSP before the other CPUs run: switch_to(0), INIT
LockTtyInit ==
    /\ \A c \in CPUs : mmu.at[c] = "run"
    /\ TtyInit

\* switch_to(t) on CPU c, line 68: KERNEL_PAGE_TABLE.lock()
SwitchLockTable(c, t) ==
    /\ tty.init /\ ~mmu.panic
    /\ tty.n < MaxSwitch
    /\ mmu.at[c] = "run"
    /\ mmu.kpt = None
    /\ mmu' = [mmu EXCEPT !.kpt = c, !.at[c] = "switch", !.req[c] = t]
    /\ UNCHANGED <<avars, tty>>
    /\ DisplayFrame

\* switch_to from line 69: FRAME_ALLOCATOR.lock(), TTYS.lock(), the switch, and
\* the guards dropped at the return
SwitchLockAllocator(c) ==
    /\ mmu.at[c] = "switch"
    /\ mmu.fa = None
    /\ LET r == SwitchToOf(Here, mmu.kroot, tty.data, TRUE, tty.cur, mmu.req[c])
       IN  /\ Commit(r.st)
           /\ mmu' = IF r.st.panic
                     THEN [mmu EXCEPT !.ptab = r.st.ptab, !.panic = TRUE, !.fa = c,
                                      !.at[c] = "panic"]
                     ELSE [mmu EXCEPT !.ptab = r.st.ptab, !.kpt = None, !.at[c] = "run",
                                      !.req[c] = None]
           /\ tty' = [tty EXCEPT !.cur = mmu.req[c], !.data = r.data, !.n = @ + 1,
                                 !.arg = mmu.req[c], !.last = tty.cur,
                                 !.shown = ImageAt(mmu.ptab, mmu.kroot, tty.data, VramPage(0))]
    /\ DisplayFrame

\* create_page_table_from_kernel on CPU c, line 55: FRAME_ALLOCATOR.lock()
CreateLockAllocator(c) ==
    /\ tty.init /\ ~mmu.panic
    /\ Len(mmu.clones) < MaxClones
    /\ mmu.at[c] = "run"
    /\ mmu.fa = None
    /\ mmu' = [mmu EXCEPT !.fa = c, !.at[c] = "create"]
    /\ UNCHANGED <<avars, tty>>
    /\ DisplayFrame

\* create_page_table_from_kernel from line 56: KERNEL_PAGE_TABLE.lock() for the
\* address, the copy, and the allocator's guard dropped at the return
CreateLockTable(c) ==
    /\ mmu.at[c] = "create"
    /\ mmu.kpt = None
    /\ LET r == NewFromAddress(Here, mmu.kroot)
       IN  /\ Commit(r.st)
           /\ mmu' = IF r.st.panic
                     THEN [mmu EXCEPT !.ptab = r.st.ptab, !.panic = TRUE, !.at[c] = "panic"]
                     ELSE [mmu EXCEPT !.ptab = r.st.ptab, !.clones = Append(@, r.root),
                                      !.fa = None, !.at[c] = "run"]
    /\ UNCHANGED tty
    /\ DisplayFrame

LockNext ==
    \/ LockTtyInit
    \/ \E c \in CPUs, t \in TTYs : SwitchLockTable(c, t)
    \/ \E c \in CPUs : SwitchLockAllocator(c)
    \/ \E c \in CPUs : CreateLockAllocator(c)
    \/ \E c \in CPUs : CreateLockTable(c)

SpecLock == LockInit /\ [][LockNext]_vars

(***************************************************************************)
(* C38: switch_to and create_page_table_from_kernel running on different   *)
(* CPUs never deadlock: in no reachable state does each of two CPUs hold   *)
(* one of the two locks while it waits for the other.                      *)
(***************************************************************************)
C38_NoLockCycle ==
    ~\E c, d \in CPUs :
        /\ c # d
        /\ mmu.at[c] = "switch" /\ mmu.kpt = c
        /\ mmu.at[d] = "create" /\ mmu.fa = d

(***************************************************************************)
(* C39: during switch_to every frame passed to deallocate_frame is a       *)
(* private backing frame of the incoming TTY, deallocated at most once per *)
(* switch: a frame of the hardware frame buffer is never marked free in    *)
(* the frame allocator, and the frames a switch marks free are the frames  *)
(* the incoming TTY's pages were mapped to before it.                      *)
(***************************************************************************)
C39_OnlyBackingFramesFreed ==
    [][\A t \in TTYs :
          ((SwitchTo(t) \/ (TtyInit /\ t = 0)) /\ ~mmu'.panic)
              => /\ \A f \in FbFrames(mmu.fb) : ~BitmapGet(bitmap', f)
                 /\ \A f \in DOMAIN bitmap :
                       BitmapGet(bitmap', f) /\ ~BitmapGet(bitmap, f)
                           => \E k \in 0..(TtyPages - 1) : f = BufferFrame(mmu, t, k)]_vars

(***************************************************************************)
(* C40: in any sequence of user-heap operations (init, allocate with sbrk  *)
(* growth, deallocate, clear) the arena covers only addresses whose pages  *)
(* are mapped in the process's page table, so allocate hands out no        *)
(* address in an unmapped page, also after clear().                        *)
(***************************************************************************)
C40_ArenaIsMapped ==
    uh.inited /\ ~uh.panic
        => /\ uh.span <= Len(uh.pages) * FrameSize
           /\ uh.op = "allocate" /\ uh.ret # None
                  => SumSeq(uh.held) <= Len(uh.pages) * FrameSize

====
